---------------------------- MODULE Spec2Model ----------------------------
(***************************************************************************)
(* A model of the UMBF container codec: the packed file header, the        *)
(* barycentric bit-packing of meshes, the mesh block codec, the block      *)
(* framing and the File save / read envelope.                              *)
(*                                                                         *)
(* Integers of the program are modelled with their width: u8/u16/u32       *)
(* values are naturals reduced modulo 2^w where the code truncates; a u64  *)
(* word of the barycentric pack is the set of its one-bit positions        *)
(* (0 = least significant bit), so that shifts, OR and AND are computed    *)
(* exactly as the machine computes them.                                   *)
(***************************************************************************)
EXTENDS Integers, Sequences, FiniteSets, TLC

VARIABLES
    hdr_src,      \* pack_header / unpack_header: the Header given by the caller
    hdr_pack,     \* the File::Header::Pack produced by pack_header
    hdr_dst,      \* the Header produced by unpack_header
    hdr_pc,       \* "init" | "packed" | "unpacked"
    bary_src,     \* pack / unpack: the barycentric vertices given to pack
    bary_words,   \* the vector<u64> returned by pack
    bary_dst,     \* the vector<vec3> returned by unpack
    bary_oob,     \* an element past the end of a vector was accessed
    bary_pc,      \* "init" | "packed" | "unpacked"
    mesh_src,     \* writeMesh / readMesh: the MeshBlock given to writeMesh
    mesh_bytes,   \* the stream writeMesh filled
    mesh_dst,     \* the MeshBlock readMesh returned
    mesh_pos,     \* the stream's read cursor
    mesh_ub,      \* an element outside a vector was read or written
    mesh_pc,      \* "init" | "written" | "read" | "raised"
    src_file,     \* File::save / read_from_disk: the File the caller saves
    resolver,     \* the block kinds with a stream in the resolver
    custom_read,  \* what the reader of the application's stream does
    disk,         \* the file at the path: whether it exists, and its bytes
    wb_calls,     \* how many times write_binary was invoked
    save_ret,     \* what File::save returned
    save_io,      \* whether the compressor or write_binary failed during File::save
    enc,          \* the block stream File::save built (its local stream)
    round,        \* 1: the first save and read; 2: after header.compressed was flipped
    round1,       \* what the first save and read produced
    rd,           \* read_from_bytes: the stream, its cursor and the frame just handled
    rd_asset,     \* the File read_from_bytes is filling
    read_ret,     \* "pending" | "file" | "nullptr"
    file_pc,      \* "built" | "saved" | "reading" | "done" | "idle"
    node_src,     \* write / read of a MaterialNode: the node given to write
    node_bytes,   \* the stream write(MaterialNode) filled
    node_dst,     \* the MaterialNode read(MaterialNode) filled
    node_pc,      \* "init" | "written" | "read" | "idle"
    reg_dir,      \* Registry::init: the files list_files returned, in its order
    reg_idx,      \* how many of them the loop has handled
    reg_libs,     \* _libraries: the (name, library) pairs of the hashmap
    reg_warns,    \* how many warnings the loop has logged
    reg_pc,       \* "scanning" | "done" | "crashed" | "idle"
    gn_tree,      \* Library::get_node: the library's file_tree
    gn_path,      \* the path asked for: a sequence of names
    gn_i,         \* how many segments of the path the loop has walked
    gn_cur,       \* current_node, as the child indexes leading to it from the root
    gn_pc,        \* "walking" | "returned" | "null" | "idle"
    px_src,       \* copy_pixels_to_area: the source image
    px_dst,       \* the destination image
    px_rect,      \* the rectangle of the destination to copy to
    px_pc,        \* "init" | "copied" | "warned" | "thrown" | "crashed" | "idle"
    cnt_src,      \* a sequence written behind a u16 count: the node or list that holds it
    cnt_wire,     \* what the writer put on the stream for it
    cnt_dst,      \* what the reader made of the stream
    cnt_pc,       \* "init" | "written" | "raised" | "read" | "idle"
    fl_image,     \* fill_color_pixels: the Image2D to fill
    fl_color,     \* the colour: four floats
    fl_buf,       \* how many bytes were allocated for image.pixels
    fl_written,   \* the indexes i of the elements data[i] the fill assigned
    fl_pc,        \* "init" | "filled" | "warned" | "aborted" | "crashed" | "idle"
    fm_assignes,  \* filter_mat_assignments: the ranges given
    fm_face_count, \* the number of faces of the mesh
    fm_default_id, \* the material of the faces no range names
    fm_dst,       \* the vector the ranges are appended to
    fm_pc         \* "init" | "done" | "crashed" | "idle"

hdr_vars  == <<hdr_src, hdr_pack, hdr_dst, hdr_pc>>
bary_vars == <<bary_src, bary_words, bary_dst, bary_oob, bary_pc>>
mesh_vars == <<mesh_src, mesh_bytes, mesh_dst, mesh_pos, mesh_ub, mesh_pc>>
file_vars == <<src_file, resolver, custom_read, disk, wb_calls, save_ret, save_io, enc, round, round1,
               rd, rd_asset, read_ret, file_pc>>
node_vars == <<node_src, node_bytes, node_dst, node_pc>>
reg_vars  == <<reg_dir, reg_idx, reg_libs, reg_warns, reg_pc>>
gn_vars   == <<gn_tree, gn_path, gn_i, gn_cur, gn_pc>>
px_vars   == <<px_src, px_dst, px_rect, px_pc>>
cnt_vars  == <<cnt_src, cnt_wire, cnt_dst, cnt_pc>>
fl_vars   == <<fl_image, fl_color, fl_buf, fl_written, fl_pc>>
fm_vars   == <<fm_assignes, fm_face_count, fm_default_id, fm_dst, fm_pc>>
ext_vars  == <<node_vars, reg_vars, gn_vars, px_vars, cnt_vars, fl_vars, fm_vars>>
vars == <<hdr_vars, bary_vars, mesh_vars, file_vars, ext_vars>>

\* What each component's operations leave alone: the other components.
hdr_rest  == <<bary_vars, mesh_vars, file_vars, ext_vars>>
bary_rest == <<hdr_vars, mesh_vars, file_vars, ext_vars>>
mesh_rest == <<hdr_vars, bary_vars, file_vars, ext_vars>>
file_rest == <<hdr_vars, bary_vars, mesh_vars, ext_vars>>
node_rest == <<hdr_vars, bary_vars, mesh_vars, file_vars, reg_vars, gn_vars, px_vars, cnt_vars, fl_vars, fm_vars>>
reg_rest  == <<hdr_vars, bary_vars, mesh_vars, file_vars, node_vars, gn_vars, px_vars, cnt_vars, fl_vars, fm_vars>>
gn_rest   == <<hdr_vars, bary_vars, mesh_vars, file_vars, node_vars, reg_vars, px_vars, cnt_vars, fl_vars, fm_vars>>
px_rest   == <<hdr_vars, bary_vars, mesh_vars, file_vars, node_vars, reg_vars, gn_vars, cnt_vars, fl_vars, fm_vars>>
cnt_rest  == <<hdr_vars, bary_vars, mesh_vars, file_vars, node_vars, reg_vars, gn_vars, px_vars, fl_vars, fm_vars>>
fl_rest   == <<hdr_vars, bary_vars, mesh_vars, file_vars, node_vars, reg_vars, gn_vars, px_vars, cnt_vars, fm_vars>>
fm_rest   == <<hdr_vars, bary_vars, mesh_vars, file_vars, node_vars, reg_vars, gn_vars, px_vars, cnt_vars, fl_vars>>

None == "none"

(***************************************************************************)
(* File::Header and File::Header::Pack                                     *)
(***************************************************************************)
Pow2(n) == 2 ^ n

\* x & 0xFFFFFF
Mask24(x) == x % Pow2(24)

\* static_cast<u8>(x)
U8(x) == x % 256

\* Assignment to a bit-field of the given width keeps the low bits.
BitField(x, width) == x % Pow2(width)

pack_header(src) ==
    [ vendor_sign    |-> BitField(Mask24(src.vendor_sign), 24),
      compressed     |-> BitField(U8(IF src.compressed THEN 1 ELSE 0), 8),
      vendor_version |-> BitField(Mask24(src.vendor_version), 24),
      type_sign_low  |-> BitField(U8(src.type_sign % 256), 8),
      type_sign_high |-> BitField(U8((src.type_sign \div 256) % 256), 8),
      spec_version   |-> BitField(Mask24(src.spec_version), 24) ]

\* unpack_header with the two bytes of type_sign exchanged
unpack_header_swapped(src) ==
    [ vendor_sign    |-> Mask24(src.vendor_sign),
      compressed     |-> src.compressed # 0,
      vendor_version |-> Mask24(src.vendor_version),
      type_sign      |-> (src.type_sign_low * 256 + src.type_sign_high) % Pow2(16),
      spec_version   |-> Mask24(src.spec_version) ]

unpack_header(src) ==
    [ vendor_sign    |-> Mask24(src.vendor_sign),
      compressed     |-> src.compressed # 0,
      vendor_version |-> Mask24(src.vendor_version),
      type_sign      |-> (src.type_sign_high * 256 + src.type_sign_low) % Pow2(16),
      spec_version   |-> Mask24(src.spec_version) ]


(***************************************************************************)
(* 64-bit words: the set of the positions of the bits that are one.        *)
(***************************************************************************)
WordBits == 64

\* v << s on a u64 (bits shifted past bit 63 are lost)
Shl(w, s) == {k + s : k \in {j \in w : j + s < WordBits}}

\* v >> s on a u64
Shr(w, s) == {k - s : k \in {j \in w : j >= s}}

\* (1LL << k) - 1
LowMask(k) == 0 .. (k - 1)

\* A shift count the machine defines.
ShiftOk(s) == s >= 0 /\ s < WordBits

(***************************************************************************)
(* Barycentric bit-packing (stream.cpp: encode, decode, pack, unpack)      *)
(* A float is modelled by its bit pattern: 0 is 0.0f, F1 is 1.0f.          *)
(***************************************************************************)
\* 1.0f, 0x3F800000
F1 == 1065353216

\* static_cast<f32>(b) of a bit b
F32OfBit(b) == IF b # 0 THEN F1 ELSE 0

\* encode with the bits of x and y exchanged
encode_swapped(bary) ==
    (IF bary[1] # 0 THEN {1} ELSE {}) \cup
    (IF bary[2] # 0 THEN {2} ELSE {}) \cup
    (IF bary[3] # 0 THEN {0} ELSE {})

\* u64 encode(const glm::vec3 &bary)
encode(bary) ==
    (IF bary[1] # 0 THEN {2} ELSE {}) \cup
    (IF bary[2] # 0 THEN {1} ELSE {}) \cup
    (IF bary[3] # 0 THEN {0} ELSE {})

\* void decode(u8 binary, glm::vec3 &bary): the argument is the word's low byte
decode(binary) ==
    << F32OfBit(IF 2 \in binary THEN 1 ELSE 0),
       F32OfBit(IF 1 \in binary THEN 1 ELSE 0),
       F32OfBit(IF 0 \in binary THEN 1 ELSE 0) >>

\* (barycentric.size() * 3 + 63) / 64
PackSize(n) == (n * 3 + 63) \div 64

ZeroVec3 == <<0, 0, 0>>

\* barycentric[i] of pack: past the end the element read is not defined
BaryAt(barycentric, i) ==
    IF i >= 0 /\ i < Len(barycentric) THEN barycentric[i + 1].barycentric ELSE ZeroVec3

\* pack64[bid] |= v
OrInto(pack64, bid, v) ==
    IF bid >= 0 /\ bid < Len(pack64) THEN [pack64 EXCEPT ![bid + 1] = @ \cup v] ELSE pack64

\* the inner loop of pack filling a word from its low end
RECURSIVE PackInnerLow(_, _)
PackInnerLow(barycentric, st) ==
    IF st.offset < 61 /\ st.i < Len(barycentric)
    THEN PackInnerLow(barycentric,
            [st EXCEPT !.pack64 = OrInto(@, st.bid, Shl(encode(BaryAt(barycentric, st.i)), st.offset)),
                       !.i = @ + 1,
                       !.offset = @ + 3])
    ELSE st

\* pack, lines 152-156: while (offset < 61 && i < barycentric.size())
RECURSIVE PackInner(_, _)
PackInner(barycentric, st) ==
    IF st.offset < 61 /\ st.i < Len(barycentric)
    THEN PackInner(barycentric,
            [st EXCEPT !.pack64 = OrInto(@, st.bid, Shl(encode(BaryAt(barycentric, st.i)), 61 - st.offset)),
                       !.i = @ + 1,
                       !.offset = @ + 3])
    ELSE st

\* pack, lines 149-164: while (bid < packSize)
RECURSIVE PackOuter(_, _, _)
PackOuter(barycentric, packSize, st) ==
    IF st.bid < packSize
    THEN LET s1 == IF st.offset # 0
                   THEN [st EXCEPT !.pack64 = OrInto(@, st.bid, Shl(encode(BaryAt(barycentric, st.i)), 64 - st.offset)),
                                   !.i = @ + 1,
                                   !.oob = @ \/ st.i >= Len(barycentric) \/ ~ShiftOk(64 - st.offset)]
                   ELSE st
             s2 == PackInner(barycentric, s1)
             o  == 3 - (64 - s2.offset)
             s3 == IF s2.i < Len(barycentric) /\ s2.offset < 64
                   THEN [s2 EXCEPT !.offset = o,
                                   !.pack64 = OrInto(@, s2.bid, Shr(encode(BaryAt(barycentric, s2.i)), o)),
                                   !.i = IF o = 0 THEN @ + 1 ELSE @,
                                   !.oob = @ \/ ~ShiftOk(o)]
                   ELSE s2
         IN  PackOuter(barycentric, packSize, [s3 EXCEPT !.bid = @ + 1])
    ELSE st

\* astl::vector<u64> pack(const astl::vector<mesh::bary::Vertex> &barycentric)
pack(barycentric) ==
    LET packSize == PackSize(Len(barycentric))
    IN  PackOuter(barycentric, packSize,
                  [pack64 |-> [k \in 1 .. packSize |-> {}], bid |-> 0, offset |-> 0, i |-> 0, oob |-> FALSE])

\* src[bid] of unpack: past the end the word read is not defined
WordAt(src, bid) == IF bid >= 0 /\ bid < Len(src) THEN src[bid + 1] ELSE {}

\* barycentric[i] = v of unpack
SetAt(barycentric, i, v) ==
    IF i >= 0 /\ i < Len(barycentric) THEN [barycentric EXCEPT ![i + 1] = v] ELSE barycentric

\* unpack, lines 173-177: while (offset < 61 && i < size)
RECURSIVE UnpackInner(_, _, _)
UnpackInner(src, size, st) ==
    IF st.offset < 61 /\ st.i < size
    THEN UnpackInner(src, size,
            [st EXCEPT !.barycentric = SetAt(@, st.i, decode(Shr(WordAt(src, st.bid), 61 - st.offset))),
                       !.i = @ + 1,
                       !.offset = @ + 3,
                       !.oob = @ \/ st.bid >= Len(src)])
    ELSE st

\* unpack, lines 171-194: while (bid < size)
RECURSIVE UnpackOuter(_, _, _)
UnpackOuter(src, size, st) ==
    IF st.bid < size
    THEN LET s2 == UnpackInner(src, size, st)
             o  == 3 - (64 - s2.offset)
             tmp == WordAt(src, s2.bid) \cap LowMask(64 - s2.offset)
             s3 == IF s2.i < size /\ s2.offset # 64
                   THEN IF s2.offset = 61
                        THEN [s2 EXCEPT !.barycentric = SetAt(@, s2.i, decode(WordAt(src, s2.bid) \cap {0, 1, 2})),
                                        !.bid = @ + 1,
                                        !.i = @ + 1,
                                        !.offset = 0,
                                        !.oob = @ \/ s2.bid >= Len(src)]
                        ELSE [s2 EXCEPT !.barycentric =
                                            SetAt(@, s2.i, decode(Shl(tmp, o) \cup Shr(WordAt(src, s2.bid + 1), 64 - o))),
                                        !.bid = @ + 1,
                                        !.i = @ + 1,
                                        !.offset = o,
                                        !.oob = @ \/ s2.bid + 1 >= Len(src)
                                                  \/ ~ShiftOk(o) \/ ~ShiftOk(64 - o) \/ ~ShiftOk(64 - s2.offset)]
                   ELSE [s2 EXCEPT !.bid = @ + 1]
         IN  UnpackOuter(src, size, s3)
    ELSE st

\* astl::vector<glm::vec3> unpack(const astl::vector<u64> &src, size_t size)
unpack(src, size) ==
    UnpackOuter(src, size,
                [barycentric |-> [k \in 1 .. size |-> ZeroVec3], bid |-> 0, offset |-> 0, i |-> 0, oob |-> FALSE])


(***************************************************************************)
(* bin_stream: a byte buffer with a read cursor.  All integers are         *)
(* little-endian.  A value read from the stream that does not fit the      *)
(* model's integers is Huge: larger than any buffer of the model.          *)
(***************************************************************************)
Huge == 2147483647

Pow256(i) == CASE i = 0 -> 1 [] i = 1 -> 256 [] i = 2 -> 65536 [] OTHER -> 16777216

\* bin_stream::write(const T &) of an integer v < 2^31 of w bytes
LE(v, w) == [ i \in 1 .. w |-> IF i > 4 THEN 0 ELSE (v \div Pow256(i - 1)) % 256 ]

\* the integer held by the bytes bs, least significant first
FromLE(bs) ==
    IF \/ \E i \in 5 .. Len(bs) : bs[i] # 0
       \/ (Len(bs) >= 4 /\ bs[4] >= 128)
    THEN Huge
    ELSE LET RECURSIVE Sum(_)
             Sum(i) == IF i > Len(bs) \/ i > 4 THEN 0 ELSE bs[i] * Pow256(i - 1) + Sum(i + 1)
         IN  Sum(1)

\* sequences of sequences, concatenated
RECURSIVE Flatten(_)
Flatten(ss) == IF ss = <<>> THEN <<>> ELSE Head(ss) \o Flatten(Tail(ss))

\* bin_stream::write of a glm::vec2 / glm::vec3: its floats in order
WriteVec(v) == Flatten([ i \in 1 .. Len(v) |-> LE(v[i], 4) ])

\* bin_stream::write(const T *data, size_t count) of u32 elements
WriteU32s(xs) == Flatten([ i \in 1 .. Len(xs) |-> LE(xs[i], 4) ])

\* n bytes can be read at pos (reading past the end raises)
Has(d, pos, n) == n >= 0 /\ n <= Len(d) - pos

\* the integer of w bytes at pos
RdInt(d, pos, w) == FromLE(SubSeq(d, pos + 1, pos + w))

\* k floats at pos
RdVec(d, pos, k) == [ i \in 1 .. k |-> RdInt(d, pos + 4 * (i - 1), 4) ]

\* k u32 at pos
RdU32s(d, pos, k) == [ i \in 1 .. k |-> RdInt(d, pos + 4 * (i - 1), 4) ]

\* count elements of at least width bytes each cannot all be read at pos
TooMany(d, pos, count, width) == count > (Len(d) - pos) \div width

\* A decoder that raised.
Raised == [ ok |-> FALSE ]

\* element i (from 0) of a vector, and whether i is inside it
In0(xs, i) == i >= 0 /\ i < Len(xs)
At0(xs, i, default) == IF In0(xs, i) THEN xs[i + 1] ELSE default

(***************************************************************************)
(* Mesh block (stream.cpp: writeMesh, readMesh)                            *)
(***************************************************************************)
ZeroVec2 == <<0, 0>>
ZeroVertex == [ pos |-> ZeroVec3, uv |-> ZeroVec2, normal |-> ZeroVec3 ]

\* mesh::Transform's default member initializers
DefaultTransform == [ position |-> ZeroVec3, rotation |-> ZeroVec3, scale |-> <<F1, F1, F1>> ]

\* writeMesh, lines 211-217: one vertex group
WriteGroup(model, group) ==
    WriteVec(At0(model.vertices, At0(group.vertices, 0, 0), ZeroVertex).pos)
        \o LE(Len(group.vertices), 4) \o WriteU32s(group.vertices)
        \o LE(Len(group.faces), 4) \o WriteU32s(group.faces)

\* writeMesh, line 220: one vertex
WriteVertex(vertex) == WriteVec(vertex.uv) \o WriteVec(vertex.normal)

\* the VertexRef elements of a face, each a pair of u32
WriteRefs(refs) == Flatten([ i \in 1 .. Len(refs) |-> LE(refs[i].group, 4) \o LE(refs[i].vertex, 4) ])

\* writeMesh, line 229: model.indices[startID .. startID + indexCount)
FaceIndices(model, face) ==
    [ k \in 1 .. face.indexCount |-> At0(model.indices, face.startID + k - 1, 0) ]

\* writeMesh, lines 223-230: one face
WriteFace(model, face) ==
    LE(Len(face.vertices), 4) \o WriteRefs(face.vertices) \o WriteVec(face.normal)
        \o LE(face.indexCount, 2) \o WriteU32s(FaceIndices(model, face))

\* the eight bytes of a u64 word, least significant first
WriteWord(w) ==
    [ j \in 1 .. 8 |->
        LET bit(k) == IF (8 * (j - 1) + k) \in w THEN Pow2(k) ELSE 0
        IN  bit(0) + bit(1) + bit(2) + bit(3) + bit(4) + bit(5) + bit(6) + bit(7) ]

\* stream.write(barycentric.data(), barycentric.size())
WriteWords(ws) == Flatten([ i \in 1 .. Len(ws) |-> WriteWord(ws[i]) ])

\* writeMesh, line 240: the transform
WriteTransform(t) == WriteVec(t.position) \o WriteVec(t.rotation) \o WriteVec(t.scale)

\* writeMesh reads outside a vector: an empty group, a vertex or an index that
\* does not exist
WriteMeshUB(mesh) ==
    LET model == mesh.model
    IN  \/ \E g \in 1 .. Len(model.groups) :
              \/ model.groups[g].vertices = <<>>
              \/ ~In0(model.vertices, At0(model.groups[g].vertices, 0, 0))
        \/ \E f \in 1 .. Len(model.faces) :
              model.faces[f].indexCount > 0
                  /\ ~In0(model.indices, model.faces[f].startID + model.faces[f].indexCount - 1)
        \/ pack(mesh.baryVertices).oob

\* void writeMesh(astl::bin_stream &stream, meta::Block *block)
writeMesh(mesh) ==
    LET model == mesh.model
    IN  LE(Len(model.vertices), 4) \o LE(Len(model.groups), 4)
            \o LE(Len(model.faces), 4) \o LE(Len(model.indices), 4)
            \o Flatten([ g \in 1 .. Len(model.groups) |-> WriteGroup(model, model.groups[g]) ])
            \o Flatten([ v \in 1 .. Len(model.vertices) |-> WriteVertex(model.vertices[v]) ])
            \o Flatten([ f \in 1 .. Len(model.faces) |-> WriteFace(model, model.faces[f]) ])
            \o WriteWords(pack(mesh.baryVertices).pack64)
            \o WriteVec(model.aabb.min) \o WriteVec(model.aabb.max)
            \o WriteTransform(mesh.transform)

\* readMesh, lines 257-269: one vertex group (the position read is dropped)
ReadGroup(d, pos) ==
    IF ~Has(d, pos, 16) THEN Raised
    ELSE LET grVCount == RdInt(d, pos + 12, 4)
             p1 == pos + 16
         IN  IF TooMany(d, p1, grVCount, 4) \/ ~Has(d, p1 + 4 * grVCount, 4) THEN Raised
             ELSE LET p2 == p1 + 4 * grVCount
                      grFCount == RdInt(d, p2, 4)
                      p3 == p2 + 4
                  IN  IF TooMany(d, p3, grFCount, 4) THEN Raised
                      ELSE [ ok |-> TRUE, pos |-> p3 + 4 * grFCount,
                             val |-> [ vertices |-> RdU32s(d, p1, grVCount),
                                       faces |-> RdU32s(d, p3, grFCount) ] ]

RECURSIVE ReadGroups(_, _, _, _)
ReadGroups(d, pos, n, acc) ==
    IF n = 0 THEN [ ok |-> TRUE, pos |-> pos, val |-> acc ]
    ELSE LET r == ReadGroup(d, pos)
         IN  IF ~r.ok THEN Raised ELSE ReadGroups(d, r.pos, n - 1, Append(acc, r.val))

\* readMesh, line 272: the vertices (uv and normal; pos keeps its default)
ReadVertices(d, pos, n) ==
    [ v \in 1 .. n |->
        [ pos |-> ZeroVec3,
          uv |-> RdVec(d, pos + 20 * (v - 1), 2),
          normal |-> RdVec(d, pos + 20 * (v - 1) + 8, 3) ] ]

ReadRefs(d, pos, n) ==
    [ i \in 1 .. n |-> [ group |-> RdInt(d, pos + 8 * (i - 1), 4), vertex |-> RdInt(d, pos + 8 * (i - 1) + 4, 4) ] ]

\* model.indices[indexID + i] = v for the k values vs
RECURSIVE StoreIndices(_, _, _)
StoreIndices(indices, at, vs) ==
    IF vs = <<>> THEN indices
    ELSE StoreIndices(IF In0(indices, at) THEN [indices EXCEPT ![at + 1] = Head(vs)] ELSE indices,
                      at + 1, Tail(vs))

\* face.startID = indexID, off by one
FaceStartShifted(indexID) == indexID + 1

\* readMesh, line 283: face.startID = indexID
FaceStart(indexID) == indexID

\* readMesh, lines 276-285: the faces, st = [faces, indices, indexID, ub]
RECURSIVE ReadFaces(_, _, _, _)
ReadFaces(d, pos, n, st) ==
    IF n = 0 THEN [ ok |-> TRUE, pos |-> pos, val |-> st ]
    ELSE IF ~Has(d, pos, 4) THEN Raised
    ELSE LET fvCount == RdInt(d, pos, 4)
             p1 == pos + 4
         IN  IF TooMany(d, p1, fvCount, 8) \/ ~Has(d, p1 + 8 * fvCount, 14) THEN Raised
             ELSE LET p2 == p1 + 8 * fvCount
                      indexCount == RdInt(d, p2 + 12, 2)
                      p3 == p2 + 14
                  IN  IF TooMany(d, p3, indexCount, 4) THEN Raised
                      ELSE LET face == [ vertices |-> ReadRefs(d, p1, fvCount),
                                         normal |-> RdVec(d, p2, 3),
                                         startID |-> FaceStart(st.indexID),
                                         indexCount |-> indexCount ]
                           IN  ReadFaces(d, p3 + 4 * indexCount, n - 1,
                                   [ faces |-> Append(st.faces, face),
                                     indices |-> StoreIndices(st.indices, st.indexID, RdU32s(d, p3, indexCount)),
                                     indexID |-> st.indexID + indexCount,
                                     ub |-> st.ub \/ (indexCount > 0 /\ ~In0(st.indices, st.indexID + indexCount - 1)) ])

\* the u64 word held by eight bytes
ReadWord(d, pos) ==
    { k \in 0 .. 63 : (d[pos + 1 + (k \div 8)] \div Pow2(k % 8)) % 2 = 1 }

\* meta::Block *readMesh(astl::bin_stream &stream)
readMesh(d, pos) ==
    IF ~Has(d, pos, 16) THEN Raised
    ELSE
    LET vCount  == RdInt(d, pos, 4)
        vgCount == RdInt(d, pos + 4, 4)
        fCount  == RdInt(d, pos + 8, 4)
        iCount  == RdInt(d, pos + 12, 4)
        p0 == pos + 16
    IN  IF \/ TooMany(d, p0, vCount, 20) \/ TooMany(d, p0, vgCount, 20)
           \/ TooMany(d, p0, fCount, 18) \/ iCount > 64 * Len(d)
        THEN Raised
        ELSE
        LET gr == ReadGroups(d, p0, vgCount, <<>>)
        IN  IF ~gr.ok THEN Raised
            ELSE IF ~Has(d, gr.pos, 20 * vCount) THEN Raised
            ELSE
            LET vertices == ReadVertices(d, gr.pos, vCount)
                fr == ReadFaces(d, gr.pos + 20 * vCount, fCount,
                                [ faces |-> <<>>, indices |-> [ k \in 1 .. iCount |-> 0 ],
                                  indexID |-> 0, ub |-> FALSE ])
            IN  IF ~fr.ok THEN Raised
                ELSE
                LET nWords == PackSize(iCount)
                    p4 == fr.pos
                IN  IF ~Has(d, p4, 8 * nWords + 24) THEN Raised
                    ELSE
                    LET baryPack == [ w \in 1 .. nWords |-> ReadWord(d, p4 + 8 * (w - 1)) ]
                        un == unpack(baryPack, iCount)
                        indices == fr.val.indices
                        p5 == p4 + 8 * nWords
                    IN  [ ok |-> TRUE,
                          pos |-> p5 + 24,
                          ub |-> fr.val.ub \/ un.oob \/ \E i \in 1 .. iCount : ~In0(vertices, indices[i]),
                          val |-> [ kind |-> "mesh",
                                    model |-> [ vertices |-> vertices,
                                                groups |-> gr.val,
                                                faces |-> fr.val.faces,
                                                indices |-> indices,
                                                aabb |-> [ min |-> RdVec(d, p5, 3), max |-> RdVec(d, p5 + 12, 3) ] ],
                                    baryVertices |->
                                        [ i \in 1 .. iCount |->
                                            [ pos |-> At0(vertices, indices[i], ZeroVertex).pos,
                                              barycentric |-> un.barycentric[i] ] ],
                                    transform |-> DefaultTransform,
                                    normalsAngle |-> 0 ] ]

(***************************************************************************)
(* Block signatures (sign_block::meta) as their four bytes on the wire,    *)
(* and the stream resolver: the set of the block kinds that have a         *)
(* registered (read, write) pair.                                          *)
(***************************************************************************)
Kinds == {"image2D", "material", "mesh", "material_range_assign", "material_info", "library", "custom"}

Signature(kind) ==
    CASE kind = "image2D"               -> <<63, 87, 132, 118>>     \* 0x7684573F
      [] kind = "material"              -> <<30, 197, 208, 168>>    \* 0xA8D0C51E
      [] kind = "mesh"                  -> <<33, 181, 36, 242>>     \* 0xF224B521
      [] kind = "material_range_assign" -> <<77, 229, 65, 196>>     \* 0xC441E54D
      [] kind = "material_info"         -> <<41, 162, 18, 97>>      \* 0x6112A229
      [] kind = "library"               -> <<250, 36, 120, 141>>    \* 0x8D7824FA
      [] kind = "custom"                -> <<238, 255, 192, 0>>     \* a stream registered by the application

\* resolver->get_stream(signature): the registered kind, or None
get_stream(registry, signature) ==
    IF \E k \in registry : Signature(k) = signature
    THEN CHOOSE k \in registry : Signature(k) = signature
    ELSE None

\* UMBF_MAGIC 0xCA9FB393, as written by bin_stream::write(u32)
MagicBytes == <<147, 179, 159, 202>>

\* sign_block::format::none
TypeNone == 0

(***************************************************************************)
(* The packed header on the wire: the twelve bytes of File::Header::Pack   *)
(***************************************************************************)
WritePack(pk) ==
    LE(pk.vendor_sign, 3) \o LE(pk.compressed, 1) \o LE(pk.vendor_version, 3)
        \o LE(pk.type_sign_low, 1) \o LE(pk.type_sign_high, 1) \o LE(pk.spec_version, 3)

ReadPack(d, pos) ==
    [ vendor_sign    |-> RdInt(d, pos, 3),
      compressed     |-> RdInt(d, pos + 3, 1),
      vendor_version |-> RdInt(d, pos + 4, 3),
      type_sign_low  |-> RdInt(d, pos + 7, 1),
      type_sign_high |-> RdInt(d, pos + 8, 1),
      spec_version   |-> RdInt(d, pos + 9, 3) ]

\* bin_stream::write(const File::Header &)
WriteHeader(header) == WritePack(pack_header(header))

(***************************************************************************)
(* acul::crc32: CRC-32 (reflected polynomial 0xEDB88320), a u32 held as    *)
(* its four bytes, least significant first.                                *)
(***************************************************************************)
\* a ^ b of two 4-bit values, tabulated (entry a + 1, b + 1)
XorBit(a, b, k) == IF ((a \div Pow2(k)) % 2) # ((b \div Pow2(k)) % 2) THEN Pow2(k) ELSE 0
Xor4 == [ a \in 1 .. 16 |->
            [ b \in 1 .. 16 |-> XorBit(a - 1, b - 1, 0) + XorBit(a - 1, b - 1, 1)
                                  + XorBit(a - 1, b - 1, 2) + XorBit(a - 1, b - 1, 3) ] \o <<>> ] \o <<>>

\* a ^ b of two bytes, tabulated (entry a + 1, b + 1)
XorTable == [ a \in 1 .. 256 |->
                [ b \in 1 .. 256 |-> 16 * Xor4[((a - 1) \div 16) + 1][((b - 1) \div 16) + 1]
                                        + Xor4[((a - 1) % 16) + 1][((b - 1) % 16) + 1] ] \o <<>> ] \o <<>>

Xor8(a, b) == XorTable[a + 1][b + 1]

XorBytes(x, y) == << Xor8(x[1], y[1]), Xor8(x[2], y[2]), Xor8(x[3], y[3]), Xor8(x[4], y[4]) >>

\* x >> 1 of a u32
ShrOne(x) ==
    << (x[1] \div 2) + 128 * (x[2] % 2), (x[2] \div 2) + 128 * (x[3] % 2),
       (x[3] \div 2) + 128 * (x[4] % 2), x[4] \div 2 >>

CrcPoly == <<32, 131, 184, 237>>

RECURSIVE CrcBits(_, _)
CrcBits(c, n) ==
    IF n = 0 THEN c
    ELSE CrcBits(IF c[1] % 2 = 1 THEN XorBytes(ShrOne(c), CrcPoly) ELSE ShrOne(c), n - 1)

\* entry b + 1: the register after the byte b alone
CrcTable == [ b \in 1 .. 256 |-> CrcBits(<<b - 1, 0, 0, 0>>, 8) ] \o <<>>

\* one byte enters the register
CrcEntry(entry, c) == << Xor8(entry[1], c[2]), Xor8(entry[2], c[3]), Xor8(entry[3], c[4]), entry[4] >>
CrcByte(c, b) == CrcEntry(CrcTable[Xor8(c[1], b) + 1], c)

\* bytes lo .. hi of d enter the register c (four bytes), in order
RECURSIVE CrcRun(_, _, _, _)
CrcRun(c, d, lo, hi) ==
    IF Len(c) # 4 \/ lo > hi THEN c ELSE CrcRun(CrcByte(c, d[lo]), d, lo + 1, hi)

\* the same, a run of 32 bytes at a time
RECURSIVE CrcUpdate(_, _, _)
CrcUpdate(c, d, lo) ==
    IF Len(c) # 4 \/ lo > Len(d) THEN c
    ELSE LET hi == IF lo + 31 > Len(d) THEN Len(d) ELSE lo + 31
         IN  CrcUpdate(CrcRun(c, d, lo, hi), d, hi + 1)

AllOnes == <<255, 255, 255, 255>>

\* acul::crc32(0, data, size)
crc32(d) == XorBytes(CrcUpdate(AllOnes, d, 1), AllOnes)

(***************************************************************************)
(* acul::fs::compress / decompress: a reversible recoding of the bytes     *)
(* behind a length byte; decompress fails on bytes compress did not write. *)
(***************************************************************************)
compress(d) == <<Len(d) % 256>> \o [ i \in 1 .. Len(d) |-> (d[i] + 1) % 256 ]

decompress(c) ==
    IF c = <<>> \/ c[1] # (Len(c) - 1) % 256 THEN Raised
    ELSE [ ok |-> TRUE, val |-> [ i \in 1 .. Len(c) - 1 |-> (c[i + 1] + 255) % 256 ] ]

(***************************************************************************)
(* Block codecs.  A writer yields [ok, bytes] (ok = FALSE: it raised); a   *)
(* reader yields [ok, pos, val, ub]: the cursor after the last byte it     *)
(* consumed and the block it built.              *)
(***************************************************************************)
Wrote(bytes) == [ ok |-> TRUE, bytes |-> bytes ]
Done(pos, val) == [ ok |-> TRUE, pos |-> pos, val |-> val, ub |-> FALSE ]

\* a null block pointer, and a null pixel pointer
NullBlock == [ kind |-> "null" ]
NullPixels == [ null |-> TRUE, data |-> <<>> ]
Pixels(data) == [ null |-> FALSE, data |-> data ]

\* bin_stream::write / read of a string: u32 length, then the bytes
WriteString(str) == LE(Len(str), 4) \o str

ReadString(d, pos) ==
    IF ~Has(d, pos, 4) THEN Raised
    ELSE LET n == RdInt(d, pos, 4)
         IN  IF ~Has(d, pos + 4, n) THEN Raised
             ELSE Done(pos + 4 + n, SubSeq(d, pos + 5, pos + 4 + n))

\* bin_stream::write(const T *data, size_t count) of u64 elements
WriteU64s(xs) == Flatten([ i \in 1 .. Len(xs) |-> LE(xs[i], 8) ])
RdU64s(d, pos, k) == [ i \in 1 .. k |-> RdInt(d, pos + 8 * (i - 1), 8) ]

\* a product that does not fit the model's integers is Huge
Times(a, b) == IF a = 0 \/ b = 0 THEN 0 ELSE IF a > Huge \div b THEN Huge ELSE a * b

\* Image2D::imageSize()
imageSize(image) ==
    Times(Times(Times(image.width, image.height), image.bytesPerChannel), image.channelCount)

writeImageInfo(image) ==
    LE(image.width, 2) \o LE(image.height, 2) \o LE(image.channelCount % 65536, 2)
        \o LE(Len(image.channelNames) % 256, 1)
        \o Flatten([ i \in 1 .. Len(image.channelNames) |-> WriteString(image.channelNames[i]) ])
        \o LE(image.bytesPerChannel, 2) \o LE(image.imageFormat % 256, 1)

writeImage2D(image) ==
    IF image.pixels.null THEN Raised
    ELSE Wrote(writeImageInfo(image) \o SubSeq(image.pixels.data, 1, imageSize(image)))

RECURSIVE ReadStrings(_, _, _, _)
ReadStrings(d, pos, n, acc) ==
    IF n = 0 THEN Done(pos, acc)
    ELSE LET r == ReadString(d, pos)
         IN  IF ~r.ok THEN Raised ELSE ReadStrings(d, r.pos, n - 1, Append(acc, r.val))

readImage2D(d, pos) ==
    IF ~Has(d, pos, 7) THEN Raised
    ELSE
    LET names == ReadStrings(d, pos + 7, RdInt(d, pos + 6, 1), <<>>)
    IN  IF ~names.ok THEN Raised
        ELSE IF ~Has(d, names.pos, 3) THEN Raised
        ELSE
        LET info == [ width |-> RdInt(d, pos, 2), height |-> RdInt(d, pos + 2, 2),
                      channelCount |-> RdInt(d, pos + 4, 2),
                      bytesPerChannel |-> RdInt(d, names.pos, 2) ]
            p1 == names.pos + 3
        IN  IF ~Has(d, p1, imageSize(info)) THEN Raised
            ELSE Done(p1 + imageSize(info),
                      [ kind |-> "image2D", width |-> info.width, height |-> info.height,
                        channelCount |-> info.channelCount, channelNames |-> names.val,
                        bytesPerChannel |-> info.bytesPerChannel,
                        imageFormat |-> RdInt(d, names.pos + 2, 1),
                        pixels |-> Pixels(SubSeq(d, p1 + 1, p1 + imageSize(info))) ])

writeMaterialInfo(material) ==
    Wrote(LE(material.id, 8) \o WriteString(material.name)
            \o LE(Len(material.assignments), 4) \o WriteU64s(material.assignments))

readMaterialInfo(d, pos) ==
    IF ~Has(d, pos, 8) THEN Raised
    ELSE
    LET name == ReadString(d, pos + 8)
    IN  IF ~name.ok THEN Raised
        ELSE IF ~Has(d, name.pos, 4) THEN Raised
        ELSE
        LET assignSize == RdInt(d, name.pos, 4)
        IN  IF TooMany(d, name.pos + 4, assignSize, 8) THEN Raised
            ELSE Done(name.pos + 4 + 8 * assignSize,
                      [ kind |-> "material_info", id |-> RdInt(d, pos, 8), name |-> name.val,
                        assignments |-> RdU64s(d, name.pos + 4, assignSize) ])

writeMatRangeAssign(assignment) ==
    Wrote(LE(assignment.matID, 8) \o LE(Len(assignment.faces), 4) \o WriteU32s(assignment.faces))

readMatRangeAssign(d, pos) ==
    IF ~Has(d, pos, 12) THEN Raised
    ELSE
    LET faceSize == RdInt(d, pos + 8, 4)
    IN  IF TooMany(d, pos + 12, faceSize, 4) THEN Raised
        ELSE Done(pos + 12 + 4 * faceSize,
                  [ kind |-> "material_range_assign", matID |-> RdInt(d, pos, 8),
                    faces |-> RdU32s(d, pos + 12, faceSize) ])

\* write(MaterialNode), had it packed texture_id whatever textured is
WriteMaterialNodeAlways(src) ==
    WriteVec(src.rgb) \o LE((IF src.textured THEN 32768 ELSE 0) + (src.texture_id % 32768), 2)

\* read(MaterialNode), had it kept the whole u16 as texture_id
ReadMaterialNodeUnmasked(d, pos) ==
    IF ~Has(d, pos, 14) THEN Raised
    ELSE LET data == RdInt(d, pos + 12, 2)
             textured == data \div 32768 = 1
         IN  Done(pos + 14, [ rgb |-> RdVec(d, pos, 3), textured |-> textured,
                              texture_id |-> IF textured THEN data ELSE 0 ])

\* bin_stream::write / read of a MaterialNode
WriteMaterialNode(src) ==
    WriteVec(src.rgb) \o LE(IF src.textured THEN 32768 + (src.texture_id % 32768) ELSE 0, 2)

ReadMaterialNode(d, pos) ==
    IF ~Has(d, pos, 14) THEN Raised
    ELSE LET data == RdInt(d, pos + 12, 2)
             textured == data \div 32768 = 1
         IN  Done(pos + 14, [ rgb |-> RdVec(d, pos, 3), textured |-> textured,
                              texture_id |-> IF textured THEN data % 32768 ELSE 0 ])

\* A stream the application registered: its writer puts a length byte and
\* the payload; its reader consumes them and then, as the application wrote
\* it, returns the block, returns a null pointer, or raises.
writeCustom(block) == Wrote(LE(Len(block.payload), 1) \o block.payload)

readCustom(d, pos, outcome) ==
    IF ~Has(d, pos, 1) THEN Raised
    ELSE LET n == RdInt(d, pos, 1)
         IN  IF ~Has(d, pos + 1, n) \/ outcome = "raise" THEN Raised
             ELSE Done(pos + 1 + n,
                       IF outcome = "null" THEN NullBlock
                       ELSE [ kind |-> "custom", payload |-> SubSeq(d, pos + 2, pos + 1 + n) ])

\* bin_stream::shift: the cursor moves n bytes on; every position past the
\* end of the buffer behaves alike
Beyond(d) == Len(d) + 1
shift(d, pos, n) == IF n > Len(d) - pos THEN Beyond(d) ELSE pos + n

(***************************************************************************)
(* The block list, the nested File and the Library tree.  These call each  *)
(* other: a Material holds Files, a Library node holds a File, and every   *)
(* File holds a block list.                                                *)
(***************************************************************************)
RECURSIVE WriteBlock(_, _)
RECURSIVE WriteBlocks(_, _)
RECURSIVE WriteFileList(_, _)
RECURSIVE WriteNode(_, _)
RECURSIVE WriteNodes(_, _)

\* stream.write(a).write(b): b is written after a, unless one of them raised
Chain(a, b) == IF ~a.ok THEN Raised ELSE IF ~b.ok THEN Raised ELSE Wrote(a.bytes \o b.bytes)

\* bin_stream::write(const File &): the packed header, then the blocks
WriteFile(file, registry) ==
    Chain(Wrote(WriteHeader(file.header)), WriteBlocks(file.blocks, registry))

WriteFileList(files, registry) ==
    IF files = <<>> THEN Wrote(<<>>)
    ELSE Chain(WriteFile(Head(files), registry), WriteFileList(Tail(files), registry))

\* bin_stream::write(const vector<File> &)
WriteFiles(files, registry) ==
    Chain(Wrote(LE(Len(files) % 65536, 2)), WriteFileList(files, registry))

WriteNodes(nodes, registry) ==
    IF nodes = <<>> THEN Wrote(<<>>)
    ELSE Chain(WriteNode(Head(nodes), registry), WriteNodes(Tail(nodes), registry))

\* bin_stream::write(const Library::Node &)
WriteNode(node, registry) ==
    LET child_count == Len(node.children) % 65536
        head == WriteString(node.name) \o LE(IF node.is_folder THEN 1 ELSE 0, 1) \o LE(child_count, 2)
    IN  IF child_count > 0 THEN Chain(Wrote(head), WriteNodes(node.children, registry))
        ELSE IF node.is_folder THEN Wrote(head)
        ELSE IF node.asset.header.type_sign = TypeNone THEN Raised
        ELSE Chain(Wrote(head), WriteFile(node.asset, registry))

writeMaterial(material, registry) ==
    Chain(WriteFiles(material.textures, registry), Wrote(WriteMaterialNode(material.albedo)))

writeLibrary(library, registry) == WriteNode(library.fileTree, registry)

\* meta_stream->write(tmp, block): the writer registered for the block's kind
WriteBlock(block, registry) ==
    CASE block.kind = "image2D"               -> writeImage2D(block)
      [] block.kind = "material"              -> writeMaterial(block, registry)
      [] block.kind = "mesh"                  -> Wrote(writeMesh(block))
      [] block.kind = "material_range_assign" -> writeMatRangeAssign(block)
      [] block.kind = "material_info"         -> writeMaterialInfo(block)
      [] block.kind = "library"               -> writeLibrary(block, registry)
      [] block.kind = "custom"                -> writeCustom(block)

\* write(block_size).write(block->signature()).write(tmp.data(), block_size)
Framed(signature, tmp) ==
    IF ~tmp.ok THEN Raised ELSE Wrote(LE(Len(tmp.bytes), 8) \o signature \o tmp.bytes)

\* one block of the write loop, had it raised for a block without a stream
WriteFrameStrict(block, registry) ==
    IF get_stream(registry, Signature(block.kind)) = None THEN Raised
    ELSE Framed(Signature(block.kind), WriteBlock(block, registry))

\* one block of bin_stream::write(const vector<shared_ptr<Block>> &): its
\* frame, or nothing when no stream is registered for its signature
WriteFrame(block, registry) ==
    IF get_stream(registry, Signature(block.kind)) = None THEN Wrote(<<>>)
    ELSE Framed(Signature(block.kind), WriteBlock(block, registry))

\* the terminator: write(0ULL)
Terminator == LE(0, 8)

\* bin_stream::write(const vector<shared_ptr<Block>> &)
WriteBlocks(blocks, registry) ==
    IF blocks = <<>> THEN Wrote(Terminator)
    ELSE Chain(WriteFrame(Head(blocks), registry), WriteBlocks(Tail(blocks), registry))

RECURSIVE ReadBlock(_, _, _, _)
RECURSIVE ReadBlocks(_, _, _, _, _)
RECURSIVE ReadFileList(_, _, _, _, _, _)
RECURSIVE ReadNode(_, _, _)
RECURSIVE ReadNodes(_, _, _, _, _, _)

\* the loop, had it caught what a reader raises and gone on after the frame
DecodedSwallowed(header, block) ==
    IF ~block.ok THEN [ header EXCEPT !.st = "null", !.pos = @ + 12 + header.block_size ]
    ELSE [ header EXCEPT !.st = IF block.val = NullBlock THEN "null" ELSE "block",
                         !.pos = block.pos, !.val = block.val, !.ub = block.ub ]

\* the registered reader returned: the block is pushed, or it is null
Decoded(header, block) ==
    IF ~block.ok THEN header
    ELSE [ header EXCEPT !.st = IF block.val = NullBlock THEN "null" ELSE "block",
                         !.pos = block.pos, !.val = block.val, !.ub = block.ub ]

\* One pass of the loop of bin_stream::read(vector<shared_ptr<Block>> &),
\* entered with the cursor inside the buffer.  st tells how it ended:
\* "break" (terminator), "block" (pushed), "null" (warning), "skipped"
\* (no stream registered) or "raised".
ReadFrame(d, pos, env) ==
    LET none == [ st |-> "raised", pos |-> pos, val |-> NullBlock, ub |-> FALSE,
                  block_size |-> 0, signature |-> <<>>, stream |-> None ]
    IN  IF ~Has(d, pos, 8) THEN none
        ELSE
        LET block_size == RdInt(d, pos, 8)
        IN  IF block_size = 0 THEN [ none EXCEPT !.st = "break", !.pos = pos + 8 ]
            ELSE IF ~Has(d, pos + 8, 4) THEN [ none EXCEPT !.block_size = block_size ]
            ELSE
            LET signature == SubSeq(d, pos + 9, pos + 12)
                meta_stream == get_stream(env.registry, signature)
                header == [ none EXCEPT !.block_size = block_size, !.signature = signature,
                                        !.stream = meta_stream ]
            IN  IF meta_stream # None
                THEN Decoded(header, ReadBlock(meta_stream, d, pos + 12, env))
                ELSE [ header EXCEPT !.st = "skipped", !.pos = shift(d, pos + 12, block_size) ]

\* the loop goes on after the frame, or ends with it
NextBlocks(d, env, meta, ub, frame) ==
    CASE frame.st = "raised" -> Raised
      [] frame.st = "break"  -> [ ok |-> TRUE, pos |-> frame.pos, val |-> meta, ub |-> ub ]
      [] frame.st = "block"  -> ReadBlocks(d, frame.pos, env, Append(meta, frame.val), ub \/ frame.ub)
      [] OTHER               -> ReadBlocks(d, frame.pos, env, meta, ub \/ frame.ub)

\* bin_stream::read(vector<shared_ptr<Block>> &)
ReadBlocks(d, pos, env, meta, ub) ==
    IF pos >= Len(d) THEN [ ok |-> TRUE, pos |-> pos, val |-> meta, ub |-> ub ]
    ELSE NextBlocks(d, env, meta, ub, ReadFrame(d, pos, env))

\* the checksum of a File that no reader has set
NoChecksum == <<0, 0, 0, 0>>

\* bin_stream::read(File::Header &)
ReadHeader(d, pos) ==
    IF ~Has(d, pos, 12) THEN Raised ELSE Done(pos + 12, unpack_header(ReadPack(d, pos)))

FileOf(header, blocks) ==
    IF ~blocks.ok THEN Raised
    ELSE [ ok |-> TRUE, pos |-> blocks.pos, ub |-> blocks.ub,
           val |-> [ header |-> header, blocks |-> blocks.val, checksum |-> NoChecksum ] ]

\* bin_stream::read(File &): the header, then the blocks
ReadFile(d, pos, env) ==
    IF ~Has(d, pos, 12) THEN Raised
    ELSE FileOf(ReadHeader(d, pos).val, ReadBlocks(d, pos + 12, env, <<>>, FALSE))

NextFiles(d, env, n, acc, ub, asset) ==
    IF ~asset.ok THEN Raised
    ELSE ReadFileList(d, asset.pos, env, n - 1, Append(acc, asset.val), ub \/ asset.ub)

ReadFileList(d, pos, env, n, acc, ub) ==
    IF n = 0 THEN [ ok |-> TRUE, pos |-> pos, val |-> acc, ub |-> ub ]
    ELSE NextFiles(d, env, n, acc, ub, ReadFile(d, pos, env))

\* bin_stream::read(vector<File> &)
ReadFiles(d, pos, env) ==
    IF ~Has(d, pos, 2) THEN Raised
    ELSE IF TooMany(d, pos + 2, RdInt(d, pos, 2), 12) THEN Raised
    ELSE ReadFileList(d, pos + 2, env, RdInt(d, pos, 2), <<>>, FALSE)

\* a default-constructed File (the asset of a node that holds none)
NoFile ==
    [ header |-> [ vendor_sign |-> 0, vendor_version |-> 0, type_sign |-> TypeNone,
                   spec_version |-> 0, compressed |-> FALSE ],
      blocks |-> <<>>, checksum |-> NoChecksum ]

NextNodes(d, env, n, acc, ub, child) ==
    IF ~child.ok THEN Raised
    ELSE ReadNodes(d, child.pos, env, n - 1, Append(acc, child.val), ub \/ child.ub)

ReadNodes(d, pos, env, n, acc, ub) ==
    IF n = 0 THEN [ ok |-> TRUE, pos |-> pos, val |-> acc, ub |-> ub ]
    ELSE NextNodes(d, env, n, acc, ub, ReadNode(d, pos, env))

\* read(Library::Node), had it taken every node with children for a folder
FolderForced(node, children) ==
    IF ~children.ok THEN Raised
    ELSE [ ok |-> TRUE, pos |-> children.pos, ub |-> children.ub,
           val |-> [ node EXCEPT !.children = children.val, !.is_folder = TRUE ] ]

\* read(Library::Node), had it taken the asset of a leaf whatever its type_sign
LeafUnchecked(node, asset) ==
    IF ~asset.ok THEN Raised
    ELSE [ ok |-> TRUE, pos |-> asset.pos, ub |-> asset.ub,
           val |-> [ node EXCEPT !.asset = asset.val ] ]

\* the node, its children read
Folder(node, children) ==
    IF ~children.ok THEN Raised
    ELSE [ ok |-> TRUE, pos |-> children.pos, ub |-> children.ub,
           val |-> [ node EXCEPT !.children = children.val ] ]

\* the node, its asset read
Leaf(node, asset) ==
    IF ~asset.ok THEN Raised
    ELSE IF asset.val.header.type_sign = TypeNone THEN Raised
    ELSE [ ok |-> TRUE, pos |-> asset.pos, ub |-> asset.ub,
           val |-> [ node EXCEPT !.asset = asset.val ] ]

\* bin_stream::read(Library::Node &)
ReadNode(d, pos, env) ==
    LET name == ReadString(d, pos)
    IN  IF ~name.ok THEN Raised
        ELSE IF ~Has(d, name.pos, 3) THEN Raised
        ELSE
        LET is_folder == RdInt(d, name.pos, 1) # 0
            child_count == RdInt(d, name.pos + 1, 2)
            p1 == name.pos + 3
            node == [ name |-> name.val, is_folder |-> is_folder, children |-> <<>>, asset |-> NoFile ]
        IN  IF child_count > 0
            THEN IF TooMany(d, p1, child_count, 7) THEN Raised
                 ELSE Folder(node, ReadNodes(d, p1, env, child_count, <<>>, FALSE))
            ELSE IF is_folder THEN Done(p1, node)
            ELSE Leaf(node, ReadFile(d, p1, env))

\* the Material, its textures read
Textured(d, textures) ==
    IF ~textures.ok THEN Raised
    ELSE LET albedo == ReadMaterialNode(d, textures.pos)
         IN  IF ~albedo.ok THEN Raised
             ELSE [ ok |-> TRUE, pos |-> albedo.pos, ub |-> textures.ub,
                    val |-> [ kind |-> "material", textures |-> textures.val,
                              albedo |-> albedo.val ] ]

readMaterial(d, pos, env) == Textured(d, ReadFiles(d, pos, env))

\* the Library, its tree read
Planted(fileTree) ==
    IF ~fileTree.ok THEN Raised
    ELSE [ ok |-> TRUE, pos |-> fileTree.pos, ub |-> fileTree.ub,
           val |-> [ kind |-> "library", fileTree |-> fileTree.val ] ]

readLibrary(d, pos, env) == Planted(ReadNode(d, pos, env))

\* meta_stream->read(*this): the reader registered for the frame's signature
ReadBlock(kind, d, pos, env) ==
    CASE kind = "image2D"               -> readImage2D(d, pos)
      [] kind = "material"              -> readMaterial(d, pos, env)
      [] kind = "mesh"                  -> readMesh(d, pos)
      [] kind = "material_range_assign" -> readMatRangeAssign(d, pos)
      [] kind = "material_info"         -> readMaterialInfo(d, pos)
      [] kind = "library"               -> readLibrary(d, pos, env)
      [] kind = "custom"                -> readCustom(d, pos, env.custom)

(***************************************************************************)
(* Inputs                                                                  *)
(***************************************************************************)
\* u32 header fields: the vendor id, and values with bits above bit 23
VendorSigns    == {0, 12321661, 29098877, 2147483647}
VendorVersions == {1, 16777218}
SpecVersions   == {0, 16777215, 16777216}
\* sign_block::format: none, image, library, scene
TypeSigns      == {0, 1168, 6700, 53772}

Headers ==
    [ vendor_sign : VendorSigns, vendor_version : VendorVersions, type_sign : TypeSigns,
      spec_version : SpecVersions, compressed : BOOLEAN ]

\* The longest sequence of barycentric vertices given to pack.
MaxBary == 66
BaryFirst == 0 .. 7
BaryStride == {0, 1, 3}

\* n barycentric vertices whose patterns are a, a + b, a + 2b, ... (mod 8)
BaryVertices(n, a, b) ==
    [ i \in 1 .. n |->
        LET p == (a + b * (i - 1)) % 8
        IN  [ pos |-> ZeroVec3,
              barycentric |-> << F32OfBit((p \div 4) % 2), F32OfBit((p \div 2) % 2), F32OfBit(p % 2) >> ] ]

\* The most faces of a mesh, and the most indices of one face.
MaxFaces == 3
MaxFaceIdx == 2
\* The vertices of a mesh.
MeshVerts == 3

FaceCounts == UNION { [ 1 .. n -> 0 .. MaxFaceIdx ] : n \in 0 .. MaxFaces }

RECURSIVE SumTo(_, _)
SumTo(xs, k) == IF k = 0 THEN 0 ELSE xs[k] + SumTo(xs, k - 1)

MaxOf(xs) == IF xs = <<>> THEN 0 ELSE CHOOSE m \in { xs[i] : i \in 1 .. Len(xs) } : \A i \in 1 .. Len(xs) : xs[i] <= m

\* A mesh of MeshVerts vertices whose faces have the given index counts.
\* layout "packed": each face's slice starts where the previous one ends;
\* layout "overlap": every face's slice starts at index 0.
\* extra: indices after the last face's slice.  ngroups: vertex groups.
MeshOf(counts, layout, extra, ngroups, tpos) ==
    LET nidx == (IF layout = "packed" THEN SumTo(counts, Len(counts)) ELSE MaxOf(counts)) + extra
        vertices == [ v \in 1 .. MeshVerts |->
                        [ pos |-> <<v, F1, 0>>, uv |-> <<v, v + 1>>, normal |-> <<0, v, F1>> ] ]
        indices == [ k \in 1 .. nidx |-> (2 * k - 1) % MeshVerts ]
    IN  [ kind |-> "mesh",
          model |-> [ vertices |-> vertices,
                      groups |-> [ g \in 1 .. ngroups |-> [ vertices |-> <<g, 0>>, faces |-> <<g - 1>> ] ],
                      faces |-> [ f \in 1 .. Len(counts) |->
                                    [ vertices |-> << [ group |-> 0, vertex |-> f % MeshVerts ] >>,
                                      normal |-> <<f, 0, F1>>,
                                      startID |-> IF layout = "packed" THEN SumTo(counts, f - 1) ELSE 0,
                                      indexCount |-> counts[f] ] ],
                      indices |-> indices,
                      aabb |-> [ min |-> <<0, 0, 0>>, max |-> <<F1, F1, 3>> ] ],
          baryVertices |-> [ i \in 1 .. nidx |->
                               [ pos |-> vertices[indices[i] + 1].pos,
                                 barycentric |-> << F32OfBit(i % 2), F32OfBit((i \div 2) % 2), F32OfBit((i + 1) % 2) >> ] ],
          transform |-> [ position |-> tpos, rotation |-> ZeroVec3, scale |-> <<F1, F1, F1>> ],
          normalsAngle |-> 0 ]

\* transform.position of the meshes
MeshPositions == { ZeroVec3, <<5, 0, 0>> }

Meshes ==
    { MeshOf(c, l, e, g, t) : c \in FaceCounts, l \in {"packed", "overlap"}, e \in {0, 1},
                              g \in {0, 1}, t \in MeshPositions }

\* the meshes that carry no barycentric vertices: baryVertices is left as
\* the MeshBlock was constructed, empty
BareMeshes ==
    { [ MeshOf(c, "packed", e, 0, ZeroVec3) EXCEPT !.baryVertices = <<>> ] : c \in FaceCounts, e \in {0, 1} }

(***************************************************************************)
(* The Files given to File::save                                           *)
(***************************************************************************)
\* the longest block list of a File
MaxBlocks == 3

FileHeader(type_sign, compressed) ==
    [ vendor_sign |-> 12321661, vendor_version |-> 65536, type_sign |-> type_sign,
      spec_version |-> 65792, compressed |-> compressed ]

InfoBlock == [ kind |-> "material_info", id |-> 7, name |-> <<109>>, assignments |-> <<3>> ]
RangeBlock == [ kind |-> "material_range_assign", matID |-> 7, faces |-> <<0, 2>> ]

ImageBlock(pixels) ==
    [ kind |-> "image2D", width |-> 1, height |-> 2, channelCount |-> 1, channelNames |-> << <<82>> >>,
      bytesPerChannel |-> 1, imageFormat |-> 9, pixels |-> pixels ]

\* a File nested in a block
Nested(type_sign, blocks) ==
    [ header |-> FileHeader(type_sign, FALSE), blocks |-> blocks, checksum |-> NoChecksum ]

MaterialBlock ==
    [ kind |-> "material", textures |-> << Nested(1168, << ImageBlock(Pixels(<<200, 17>>)) >>) >>,
      albedo |-> [ rgb |-> <<F1, 0, F1>>, textured |-> TRUE, texture_id |-> 0 ] ]

\* a Library whose tree is a folder holding one leaf with the given asset type
LibraryBlock(type_sign) ==
    [ kind |-> "library",
      fileTree |-> [ name |-> <<114>>, is_folder |-> TRUE, asset |-> NoFile,
                     children |-> << [ name |-> <<97>>, is_folder |-> FALSE, children |-> <<>>,
                                       asset |-> Nested(type_sign, << RangeBlock >>) ] >> ] ]

CustomBlock == [ kind |-> "custom", payload |-> <<1, 2>> ]

\* a mesh with one face of two indices and the default Transform
MeshBlock == MeshOf(<<2>>, "packed", 0, 1, ZeroVec3)

\* the blocks that block lists of every length are made of
Blocks == { InfoBlock, ImageBlock(NullPixels), CustomBlock, MeshBlock }

\* the blocks that are saved alone
LoneBlocks ==
    { ImageBlock(Pixels(<<200, 17>>)), MaterialBlock, LibraryBlock(1168), LibraryBlock(TypeNone) }

BlockLists ==
    UNION { [ 1 .. n -> Blocks ] : n \in 0 .. MaxBlocks } \cup { <<b>> : b \in LoneBlocks }

Files ==
    { [ header |-> FileHeader(6700, FALSE), blocks |-> bs, checksum |-> NoChecksum ] :
        bs \in BlockLists }

CustomReads == { "block", "null", "raise" }

(***************************************************************************)
(* pack_header / unpack_header as a state machine                          *)
(***************************************************************************)
HdrInit ==
    /\ hdr_src \in Headers
    /\ hdr_pack = None
    /\ hdr_dst = None
    /\ hdr_pc = "init"

HdrIdle ==
    /\ hdr_src = CHOOSE h \in Headers : TRUE
    /\ hdr_pack = None
    /\ hdr_dst = None
    /\ hdr_pc = "idle"

PackHeader ==
    /\ hdr_pc = "init"
    /\ hdr_pack' = pack_header(hdr_src)
    /\ hdr_pc' = "packed"
    /\ UNCHANGED <<hdr_src, hdr_dst>>
    /\ UNCHANGED hdr_rest

UnpackHeader ==
    /\ hdr_pc = "packed"
    /\ hdr_dst' = unpack_header(hdr_pack)
    /\ hdr_pc' = "unpacked"
    /\ UNCHANGED <<hdr_src, hdr_pack>>
    /\ UNCHANGED hdr_rest

(***************************************************************************)
(* pack / unpack as a state machine                                        *)
(***************************************************************************)
BaryInit ==
    /\ \E n \in 0 .. MaxBary, a \in BaryFirst, b \in BaryStride : bary_src = BaryVertices(n, a, b)
    /\ bary_words = <<>>
    /\ bary_dst = <<>>
    /\ bary_oob = FALSE
    /\ bary_pc = "init"

BaryIdle ==
    /\ bary_src = <<>>
    /\ bary_words = <<>>
    /\ bary_dst = <<>>
    /\ bary_oob = FALSE
    /\ bary_pc = "idle"

Pack ==
    /\ bary_pc = "init"
    /\ LET r == pack(bary_src)
       IN  /\ bary_words' = r.pack64
           /\ bary_oob' = r.oob
    /\ bary_pc' = "packed"
    /\ UNCHANGED <<bary_src, bary_dst>>
    /\ UNCHANGED bary_rest

Unpack ==
    /\ bary_pc = "packed"
    /\ LET r == unpack(bary_words, Len(bary_src))
       IN  /\ bary_dst' = r.barycentric
           /\ bary_oob' = (bary_oob \/ r.oob)
    /\ bary_pc' = "unpacked"
    /\ UNCHANGED <<bary_src, bary_words>>
    /\ UNCHANGED bary_rest

(***************************************************************************)
(* writeMesh / readMesh as a state machine                                 *)
(***************************************************************************)
MeshInit ==
    /\ mesh_src \in Meshes \cup BareMeshes
    /\ mesh_bytes = <<>>
    /\ mesh_dst = None
    /\ mesh_pos = 0
    /\ mesh_ub = FALSE
    /\ mesh_pc = "init"

MeshIdle ==
    /\ mesh_src = None
    /\ mesh_bytes = <<>>
    /\ mesh_dst = None
    /\ mesh_pos = 0
    /\ mesh_ub = FALSE
    /\ mesh_pc = "idle"

WriteMesh ==
    /\ mesh_pc = "init"
    /\ mesh_bytes' = writeMesh(mesh_src)
    /\ mesh_ub' = WriteMeshUB(mesh_src)
    /\ mesh_pc' = "written"
    /\ UNCHANGED <<mesh_src, mesh_dst, mesh_pos>>
    /\ UNCHANGED mesh_rest

ReadMesh ==
    /\ mesh_pc = "written"
    /\ LET r == readMesh(mesh_bytes, 0)
       IN  IF r.ok
           THEN /\ mesh_dst' = r.val
                /\ mesh_pos' = r.pos
                /\ mesh_ub' = (mesh_ub \/ r.ub)
                /\ mesh_pc' = "read"
           ELSE /\ mesh_pc' = "raised"
                /\ UNCHANGED <<mesh_dst, mesh_pos, mesh_ub>>
    /\ UNCHANGED <<mesh_src, mesh_bytes>>
    /\ UNCHANGED mesh_rest

(***************************************************************************)
(* File::save and File::read_from_disk as a state machine                  *)
(***************************************************************************)
NoDisk == [ exists |-> FALSE, data |-> <<>> ]
NoFrame == [ st |-> "none", start |-> 0, pos |-> 0, val |-> NullBlock, ub |-> FALSE,
             block_size |-> 0, signature |-> <<>>, stream |-> None ]
NoRd == [ data |-> <<>>, pos |-> 0, offset |-> 0, broke |-> FALSE, ub |-> FALSE, warns |-> 0,
          frame |-> NoFrame ]
NoRound == [ done |-> FALSE, resolver |-> Kinds, disk |-> NoDisk ]
NoIo == [ compress_failed |-> FALSE, write_failed |-> FALSE ]

HasKind(blocks, kind) == \E i \in 1 .. Len(blocks) : blocks[i].kind = kind

FileInit ==
    /\ src_file \in Files
    /\ resolver = Kinds
    /\ custom_read \in (IF HasKind(src_file.blocks, "custom") THEN CustomReads ELSE {"block"})
    /\ disk = NoDisk
    /\ wb_calls = 0
    /\ save_ret = FALSE
    /\ save_io = NoIo
    /\ enc = <<>>
    /\ round = 1
    /\ round1 = NoRound
    /\ rd = NoRd
    /\ rd_asset = NoFile
    /\ read_ret = "pending"
    /\ file_pc = "built"

FileIdle ==
    /\ src_file = NoFile
    /\ resolver = Kinds
    /\ custom_read = "block"
    /\ disk = NoDisk
    /\ wb_calls = 0
    /\ save_ret = FALSE
    /\ save_io = NoIo
    /\ enc = <<>>
    /\ round = 1
    /\ round1 = NoRound
    /\ rd = NoRd
    /\ rd_asset = NoFile
    /\ read_ret = "pending"
    /\ file_pc = "idle"

\* save_file, had it called write_binary before it looked at the compressor's result
save_file_eager(file, src, compress_ok, write_ok) ==
    [ ret |-> write_ok /\ ~(file.header.compressed /\ ~compress_ok), wrote |-> TRUE,
      checksum |-> crc32(src),
      dst |-> MagicBytes \o WritePack(pack_header(file.header))
                \o (IF file.header.compressed THEN compress(src) ELSE src) ]

\* save_file: what it leaves on the way out.  wrote: write_binary was called.
save_file(file, src, compress_ok, write_ok) ==
    LET dst_stream == MagicBytes \o WritePack(pack_header(file.header))
                        \o (IF file.header.compressed THEN compress(src) ELSE src)
    IN  IF file.header.compressed /\ ~compress_ok
        THEN [ ret |-> FALSE, wrote |-> FALSE, checksum |-> file.checksum, dst |-> <<>> ]
        ELSE [ ret |-> write_ok, wrote |-> TRUE, checksum |-> crc32(src), dst |-> dst_stream ]

\* File::save once stream.write(blocks) is over: it raised (the catch
\* returns false), or save_file runs on the stream
Encoded(stream, compress_ok, write_ok) ==
    IF ~stream.ok
    THEN /\ save_ret' = FALSE
         /\ save_io' = NoIo
         /\ UNCHANGED <<src_file, disk, wb_calls, enc>>
    ELSE LET out == save_file(src_file, stream.bytes, compress_ok, write_ok)
         IN  /\ save_ret' = out.ret
             /\ save_io' = [ compress_failed |-> src_file.header.compressed /\ ~compress_ok,
                             write_failed |-> ~write_ok
                                                /\ ~(src_file.header.compressed /\ ~compress_ok) ]
             /\ src_file' = [ src_file EXCEPT !.checksum = out.checksum ]
             /\ disk' = IF out.ret THEN [ exists |-> TRUE, data |-> out.dst ] ELSE disk
             /\ wb_calls' = wb_calls + (IF out.wrote THEN 1 ELSE 0)
             /\ enc' = stream.bytes

\* bool File::save(const string &path, int compression).  The compressor
\* and the file system may fail: compress_ok, write_ok.
Save(compress_ok, write_ok) ==
    /\ file_pc = "built"
    /\ Encoded(WriteBlocks(src_file.blocks, resolver), compress_ok, write_ok)
    /\ file_pc' = "saved"
    /\ UNCHANGED <<resolver, custom_read, round, round1, rd, rd_asset, read_ret>>
    /\ UNCHANGED file_rest

\* The stream of one kind leaves the resolver between the save and the read
\* (the file is read by a build that does not know the kind).  Both files
\* of the same File are read by the same build.
Unregister(kind) ==
    /\ file_pc = "saved"
    /\ save_ret
    /\ resolver = Kinds
    /\ HasKind(src_file.blocks, kind)
    /\ round = 2 => kind \notin round1.resolver
    /\ resolver' = resolver \ {kind}
    /\ UNCHANGED <<src_file, custom_read, disk, wb_calls, save_ret, save_io, enc, round, round1, rd,
                   rd_asset, read_ret, file_pc>>
    /\ UNCHANGED file_rest

\* The stream of one kind is not in the resolver of the build that saves.
UnregisterEarly(kind) ==
    /\ file_pc = "built"
    /\ kind \in resolver
    /\ HasKind(src_file.blocks, kind)
    /\ resolver' = resolver \ {kind}
    /\ UNCHANGED <<src_file, custom_read, disk, wb_calls, save_ret, save_io, enc, round, round1, rd,
                   rd_asset, read_ret, file_pc>>
    /\ UNCHANGED file_rest

\* load_file, had it handed over the compressed bytes as they are
load_file_raw(source) ==
    IF ~Has(source, 0, 4) THEN Raised
    ELSE IF SubSeq(source, 1, 4) # MagicBytes THEN [ ok |-> TRUE, ret |-> FALSE ]
    ELSE IF ~Has(source, 4, 12) THEN Raised
    ELSE [ ok |-> TRUE, ret |-> TRUE, header |-> unpack_header(ReadPack(source, 4)),
           data |-> source, pos |-> 16 ]

\* load_file, had it not compared the first four bytes with the magic
load_file_any(source) ==
    IF ~Has(source, 0, 16) THEN Raised
    ELSE
    LET header == unpack_header(ReadPack(source, 4))
    IN  IF header.compressed
        THEN LET dr == decompress(SubSeq(source, 17, Len(source)))
             IN  IF ~dr.ok THEN [ ok |-> TRUE, ret |-> FALSE ]
                 ELSE [ ok |-> TRUE, ret |-> TRUE, header |-> header, data |-> dr.val, pos |-> 0 ]
        ELSE [ ok |-> TRUE, ret |-> TRUE, header |-> header, data |-> source, pos |-> 16 ]

\* bool load_file(bin_stream &source, bin_stream &dst, File::Header &header)
load_file(source) ==
    IF ~Has(source, 0, 4) THEN Raised
    ELSE IF SubSeq(source, 1, 4) # MagicBytes THEN [ ok |-> TRUE, ret |-> FALSE ]
    ELSE IF ~Has(source, 4, 12) THEN Raised
    ELSE
    LET header == unpack_header(ReadPack(source, 4))
    IN  IF header.compressed
        THEN LET dr == decompress(SubSeq(source, 17, Len(source)))
             IN  IF ~dr.ok THEN [ ok |-> TRUE, ret |-> FALSE ]
                 ELSE [ ok |-> TRUE, ret |-> TRUE, header |-> header, data |-> dr.val, pos |-> 0 ]
        ELSE [ ok |-> TRUE, ret |-> TRUE, header |-> header, data |-> source, pos |-> 16 ]

\* File::read_from_disk, and read_from_bytes up to the block loop
ReadBegin ==
    /\ file_pc = "saved"
    /\ round = 2 => resolver = round1.resolver
    /\ LET loaded == load_file(disk.data)
       IN  IF disk.exists /\ loaded.ok /\ loaded.ret
           THEN /\ rd' = [ NoRd EXCEPT !.data = loaded.data, !.pos = loaded.pos,
                                       !.offset = loaded.pos ]
                /\ rd_asset' = [ NoFile EXCEPT !.header = loaded.header ]
                /\ file_pc' = "reading"
                /\ UNCHANGED read_ret
           ELSE /\ read_ret' = "nullptr"
                /\ file_pc' = "done"
                /\ UNCHANGED <<rd, rd_asset>>
    /\ UNCHANGED <<src_file, resolver, custom_read, disk, wb_calls, save_ret, save_io, enc, round, round1>>
    /\ UNCHANGED file_rest

\* what one pass of the block loop leaves behind
Handled(frame) ==
    LET seen == [ st |-> frame.st, start |-> rd.pos, pos |-> frame.pos, val |-> frame.val,
                  ub |-> frame.ub, block_size |-> frame.block_size,
                  signature |-> frame.signature, stream |-> frame.stream ]
    IN  IF frame.st = "raised"
        THEN /\ rd' = [ rd EXCEPT !.frame = seen ]
             /\ rd_asset' = NoFile
             /\ read_ret' = "nullptr"
             /\ file_pc' = "done"
        ELSE /\ rd' = [ rd EXCEPT !.pos = frame.pos, !.broke = (frame.st = "break"),
                                  !.ub = @ \/ frame.ub,
                                  !.warns = @ + (IF frame.st = "null" THEN 1 ELSE 0),
                                  !.frame = seen ]
             /\ rd_asset' = IF frame.st = "block"
                            THEN [ rd_asset EXCEPT !.blocks = Append(@, frame.val) ]
                            ELSE rd_asset
             /\ UNCHANGED <<read_ret, file_pc>>

\* One pass of the block loop of read_from_bytes.  An exception leaves the
\* loop for the catch of read_from_bytes, which returns nullptr.
ReadStep ==
    /\ file_pc = "reading"
    /\ ~rd.broke
    /\ rd.pos < Len(rd.data)
    /\ Handled(ReadFrame(rd.data, rd.pos, [ registry |-> resolver, custom |-> custom_read ]))
    /\ UNCHANGED <<src_file, resolver, custom_read, disk, wb_calls, save_ret, save_io, enc, round, round1>>
    /\ UNCHANGED file_rest

\* read_from_bytes, had it summed the stream from its first byte
SummedWhole(data, offset) == data

\* the bytes read_from_bytes sums: stream.data() + offset, stream.size() - offset
Summed(data, offset) == SubSeq(data, offset + 1, Len(data))

\* read_from_bytes after the loop as the earlier Asset::readFromFile had it:
\* nullptr when no block was read
ReadEndEarlier ==
    /\ file_pc = "reading"
    /\ rd.broke \/ rd.pos >= Len(rd.data)
    /\ IF rd_asset.blocks = <<>>
       THEN rd_asset' = NoFile /\ read_ret' = "nullptr"
       ELSE /\ rd_asset' = [ rd_asset EXCEPT !.checksum = crc32(Summed(rd.data, rd.offset)) ]
            /\ read_ret' = "file"
    /\ file_pc' = "done"
    /\ UNCHANGED <<src_file, resolver, custom_read, disk, wb_calls, save_ret, save_io, enc, round, round1, rd>>
    /\ UNCHANGED file_rest

\* read_from_bytes after the loop: the checksum, and the File is returned
ReadEnd ==
    /\ file_pc = "reading"
    /\ rd.broke \/ rd.pos >= Len(rd.data)
    /\ rd_asset' = [ rd_asset EXCEPT !.checksum = crc32(Summed(rd.data, rd.offset)) ]
    /\ read_ret' = "file"
    /\ file_pc' = "done"
    /\ UNCHANGED <<src_file, resolver, custom_read, disk, wb_calls, save_ret, save_io, enc, round, round1, rd>>
    /\ UNCHANGED file_rest

\* The caller keeps what the read returned, flips header.compressed and
\* goes on to save the same File again, in the build that has every stream.
Recompress ==
    /\ file_pc = "done"
    /\ round = 1
    /\ save_ret
    /\ round1' = [ done |-> TRUE, file |-> src_file, enc |-> enc, read_ret |-> read_ret,
                   asset |-> rd_asset, ub |-> rd.ub, warns |-> rd.warns,
                   resolver |-> resolver, disk |-> disk ]
    /\ src_file' = [ src_file EXCEPT !.header.compressed = ~@ ]
    /\ resolver' = Kinds
    /\ round' = 2
    /\ save_ret' = FALSE
    /\ save_io' = NoIo
    /\ enc' = <<>>
    /\ rd' = NoRd
    /\ rd_asset' = NoFile
    /\ read_ret' = "pending"
    /\ file_pc' = "built"
    /\ UNCHANGED <<custom_read, disk, wb_calls>>
    /\ UNCHANGED file_rest

(***************************************************************************)
(* Library files given to File::save, and the files found on disk by       *)
(* File::read_from_disk                                                    *)
(***************************************************************************)
\* the most children of a Library node
MaxChildren == 2

\* a node without children that holds an asset of the given type
LeafNode(name, type_sign) ==
    [ name |-> name, is_folder |-> FALSE, children |-> <<>>,
      asset |-> Nested(type_sign, << RangeBlock >>) ]

\* a node without an asset
FolderNode(name, is_folder, children) ==
    [ name |-> name, is_folder |-> is_folder, children |-> children, asset |-> NoFile ]

\* the nodes found under a root: leaves (one of them with type_sign none),
\* an empty folder, and nodes with a child, is_folder set or not
LibNodes ==
    { LeafNode(<<97>>, 1168), LeafNode(<<98>>, 6700), LeafNode(<<99>>, TypeNone),
      FolderNode(<<100>>, TRUE, <<>>),
      FolderNode(<<101>>, TRUE, << LeafNode(<<97>>, 1168) >>),
      FolderNode(<<102>>, FALSE, << LeafNode(<<97>>, 1168) >>),
      FolderNode(<<103>>, TRUE, << LeafNode(<<99>>, TypeNone) >>) }

LibTrees ==
    { FolderNode(<<114>>, TRUE, cs) : cs \in UNION { [ 1 .. n -> LibNodes ] : n \in 1 .. MaxChildren } }
        \cup { LeafNode(<<97>>, 1168), LeafNode(<<99>>, TypeNone), FolderNode(<<100>>, TRUE, <<>>) }

LibraryOf(fileTree) == [ kind |-> "library", fileTree |-> fileTree ]

LibFiles ==
    { [ header |-> FileHeader(6700, FALSE), blocks |-> << LibraryOf(t) >>, checksum |-> NoChecksum ] :
        t \in LibTrees }

\* a childless non-folder node whose asset has type_sign none, anywhere in the tree
RECURSIVE HasBadLeaf(_)
HasBadLeaf(node) ==
    IF node.children = <<>>
    THEN ~node.is_folder /\ node.asset.header.type_sign = TypeNone
    ELSE \E i \in 1 .. Len(node.children) : HasBadLeaf(node.children[i])

\* The bytes of a tree as a writer without the type_sign check leaves them
\* (a file damaged, or written by another program).
RECURSIVE CorruptNode(_)
CorruptNode(node) ==
    WriteString(node.name) \o LE(IF node.is_folder THEN 1 ELSE 0, 1) \o LE(Len(node.children), 2)
        \o (IF node.children # <<>>
            THEN Flatten([ i \in 1 .. Len(node.children) |-> CorruptNode(node.children[i]) ])
            ELSE IF node.is_folder THEN <<>>
            ELSE WriteHeader(node.asset.header) \o WriteBlocks(node.asset.blocks, Kinds).bytes)

\* magic, packed header, block stream (compressed when the header says so)
Envelope(header, stream) ==
    MagicBytes \o WriteHeader(header) \o (IF header.compressed THEN compress(stream) ELSE stream)

EnvHeaders == { FileHeader(6700, FALSE), FileHeader(6700, TRUE) }

\* a frame no stream is registered for: block_size 7, signature 0xDEADBEEF
UnknownFrame == LE(7, 8) \o <<239, 190, 173, 222>> \o <<0, 1, 2, 3, 4, 5, 6>>
InfoFrame == WriteFrame(InfoBlock, Kinds).bytes

\* block streams without a frame of a registered kind
EmptyStreams ==
    { <<>>, Terminator, UnknownFrame, UnknownFrame \o Terminator,
      UnknownFrame \o UnknownFrame \o Terminator }

\* block streams with a Library frame whose tree has a leaf of type_sign none
CorruptStreams ==
    { pre \o LE(Len(CorruptNode(t)), 8) \o Signature("library") \o CorruptNode(t) \o Terminator :
        pre \in { <<>>, InfoFrame }, t \in { u \in LibTrees : HasBadLeaf(u) } }

\* four bytes that are not the magic: zeros, the magic byte-swapped, one byte off
BadMagics ==
    { <<0, 0, 0, 0>>, <<202, 159, 179, 147>>, <<146, 179, 159, 202>>, <<147, 178, 159, 202>>,
      <<147, 179, 158, 202>>, <<147, 179, 159, 203>> }

BadMagicBuffers ==
    { m \o SubSeq(Envelope(h, s), 5, Len(Envelope(h, s))) :
        m \in BadMagics, h \in EnvHeaders, s \in { Terminator, InfoFrame \o Terminator } }

\* buffers that end inside the magic or the header
ShortBuffers ==
    { SubSeq(Envelope(FileHeader(6700, FALSE), Terminator), 1, n) : n \in {0, 1, 3, 4, 9, 15} }

\* block streams with bytes behind the terminator
TrailingStreams ==
    { Terminator \o <<1, 2, 3>>, InfoFrame \o Terminator \o <<9>>, InfoFrame \o Terminator \o InfoFrame }

Buffers ==
    { Envelope(h, s) : h \in EnvHeaders,
                       s \in EmptyStreams \cup CorruptStreams \cup TrailingStreams \cup { InfoFrame \o Terminator } }
        \cup BadMagicBuffers \cup ShortBuffers

\* File::save is about to be called on a Library file
LibInit ==
    /\ src_file \in LibFiles
    /\ resolver = Kinds
    /\ custom_read = "block"
    /\ disk = NoDisk
    /\ wb_calls = 0
    /\ save_ret = FALSE
    /\ save_io = NoIo
    /\ enc = <<>>
    /\ round = 1
    /\ round1 = NoRound
    /\ rd = NoRd
    /\ rd_asset = NoFile
    /\ read_ret = "pending"
    /\ file_pc = "built"

\* File::read_from_disk is about to be called on a file this run did not write
BytesInit ==
    /\ src_file = NoFile
    /\ resolver = Kinds
    /\ custom_read = "block"
    /\ disk \in { [ exists |-> TRUE, data |-> b ] : b \in Buffers } \cup { NoDisk }
    /\ wb_calls = 0
    /\ save_ret = FALSE
    /\ save_io = NoIo
    /\ enc = <<>>
    /\ round = 1
    /\ round1 = NoRound
    /\ rd = NoRd
    /\ rd_asset = NoFile
    /\ read_ret = "pending"
    /\ file_pc = "saved"

(***************************************************************************)
(* write / read of a MaterialNode as a state machine                       *)
(***************************************************************************)
\* rgb as float bit patterns: (1, 0, 1), (0, 0, 0), (0.1, 0.2, 0.3)
NodeColors == { <<F1, 0, F1>>, ZeroVec3, <<1036831949, 1045220557, 1050253722>> }
\* i16 texture_id values: the ends of the range, -1 (no texture), 0x1234
NodeTextureIds == { -32768, -1, 0, 1, 255, 256, 4660, 32767 }

MaterialNodes == [ rgb : NodeColors, textured : BOOLEAN, texture_id : NodeTextureIds ]

NodeInit ==
    /\ node_src \in MaterialNodes
    /\ node_bytes = <<>>
    /\ node_dst = None
    /\ node_pc = "init"

NodeIdle ==
    /\ node_src = None
    /\ node_bytes = <<>>
    /\ node_dst = None
    /\ node_pc = "idle"

WriteNodeStep ==
    /\ node_pc = "init"
    /\ node_bytes' = WriteMaterialNode(node_src)
    /\ node_pc' = "written"
    /\ UNCHANGED <<node_src, node_dst>>
    /\ UNCHANGED node_rest

ReadNodeStep ==
    /\ node_pc = "written"
    /\ node_dst' = ReadMaterialNode(node_bytes, 0).val
    /\ node_pc' = "read"
    /\ UNCHANGED <<node_src, node_bytes>>
    /\ UNCHANGED node_rest

(***************************************************************************)
(* Registry::init as a state machine: one step per listed file             *)
(***************************************************************************)
\* the most files list_files returns
MaxDirFiles == 2

\* the File read_from_bytes returns once the block loop is over
Asset(loaded, blocks) ==
    IF ~blocks.ok THEN [ ok |-> FALSE ]
    ELSE [ ok |-> TRUE,
           val |-> [ header |-> loaded.header, blocks |-> blocks.val,
                     checksum |-> crc32(Summed(loaded.data, loaded.pos)) ] ]

\* File::read_from_bytes: ok = FALSE stands for nullptr
read_from_bytes(source) ==
    LET loaded == load_file(source)
    IN  IF ~loaded.ok THEN [ ok |-> FALSE ]
        ELSE IF ~loaded.ret THEN [ ok |-> FALSE ]
        ELSE Asset(loaded, ReadBlocks(loaded.data, loaded.pos,
                                      [ registry |-> Kinds, custom |-> "block" ], <<>>, FALSE))

\* File::read_from_disk: read_binary fails on a file that cannot be read
read_from_disk(entry) ==
    IF ~entry.readable THEN [ ok |-> FALSE ] ELSE read_from_bytes(entry.data)

\* a listed file: its extension, whether read_binary can read it, whether
\* loading it raises (an allocation fails), and its bytes
DirEntry(ext, readable, throws, data) ==
    [ ext |-> ext, readable |-> readable, throws |-> throws, data |-> data ]

LibBytes(fileTree) ==
    Envelope(FileHeader(6700, FALSE), WriteBlocks(<< LibraryOf(fileTree) >>, Kinds).bytes)

DirEntries ==
    { DirEntry(".umbf", TRUE, FALSE, LibBytes(FolderNode(<<111>>, TRUE, <<>>))),
      DirEntry(".umlib", FALSE, FALSE, <<>>),
      DirEntry(".umlib", TRUE, TRUE, LibBytes(FolderNode(<<116>>, TRUE, <<>>))),
      DirEntry(".umlib", TRUE, FALSE, <<0, 0, 0, 0>> \o WriteHeader(FileHeader(6700, FALSE)) \o Terminator),
      DirEntry(".umlib", TRUE, FALSE,
               Envelope(FileHeader(1168, FALSE), WriteBlocks(<< ImageBlock(Pixels(<<200, 17>>)) >>, Kinds).bytes)),
      DirEntry(".umlib", TRUE, FALSE, LibBytes(FolderNode(<<114>>, TRUE, << LeafNode(<<97>>, 1168) >>))),
      DirEntry(".umlib", TRUE, FALSE, LibBytes(FolderNode(<<114>>, TRUE, << FolderNode(<<100>>, TRUE, <<>>) >>))),
      DirEntry(".umlib", TRUE, FALSE, LibBytes(FolderNode(<<100>>, TRUE, <<>>))),
      DirEntry(".umlib", TRUE, FALSE, Envelope(FileHeader(6700, FALSE), Terminator)),
      DirEntry(".umlib", TRUE, FALSE, Envelope(FileHeader(6700, FALSE), InfoFrame \o Terminator)) }

Directories == UNION { [ 1 .. n -> DirEntries ] : n \in 0 .. MaxDirFiles }

RegInit ==
    /\ reg_dir \in Directories
    /\ reg_idx = 0
    /\ reg_libs = {}
    /\ reg_warns = 0
    /\ reg_pc = "scanning"

RegIdle ==
    /\ reg_dir = <<>>
    /\ reg_idx = 0
    /\ reg_libs = {}
    /\ reg_warns = 0
    /\ reg_pc = "idle"

\* _libraries.emplace(name, library): nothing is inserted when the key is there
emplace(libraries, name, library) ==
    IF \E e \in libraries : e.name = name THEN libraries
    ELSE libraries \cup { [ name |-> name, library |-> library ] }

\* what static_pointer_cast<Library>(asset->blocks.front()) yields when the
\* block list is empty or its first block is no Library: no object of the program
Garbage == [ kind |-> "garbage" ]

\* lines 229-231 for a File whose first block is a Library
Insert(asset) ==
    /\ reg_libs' = emplace(reg_libs, asset.blocks[1].fileTree.name, asset.blocks[1])
    /\ reg_idx' = reg_idx + 1
    /\ UNCHANGED <<reg_warns, reg_pc>>

\* lines 229-231 for a File without a first block, or whose first block is
\* not a Library: the behaviour is undefined; the process dies on the bad
\* pointer, or goes on with whatever the memory holds
InsertUndefined ==
    \/ /\ reg_pc' = "crashed"
       /\ UNCHANGED <<reg_idx, reg_libs, reg_warns>>
    \/ /\ reg_libs' = emplace(reg_libs, <<63>>, Garbage)
       /\ reg_idx' = reg_idx + 1
       /\ UNCHANGED <<reg_warns, reg_pc>>

\* a warning is logged and the loop goes on with the next file
Skip ==
    /\ reg_warns' = reg_warns + 1
    /\ reg_idx' = reg_idx + 1
    /\ UNCHANGED <<reg_libs, reg_pc>>

\* the try block of the loop, given what read_from_disk returned
Loaded(res) ==
    IF ~res.ok THEN Skip
    ELSE IF res.val.header.type_sign # 6700 THEN Skip
    ELSE IF res.val.blocks = <<>> THEN InsertUndefined
    ELSE IF res.val.blocks[1].kind # "library" THEN InsertUndefined
    ELSE Insert(res.val)

\* one pass of the loop of Registry::init
ScanStep ==
    /\ reg_pc = "scanning"
    /\ reg_idx < Len(reg_dir)
    /\ LET entry == reg_dir[reg_idx + 1]
       IN  IF entry.ext # ".umlib"
           THEN reg_idx' = reg_idx + 1 /\ UNCHANGED <<reg_libs, reg_warns, reg_pc>>
           ELSE IF entry.throws THEN Skip
           ELSE Loaded(read_from_disk(entry))
    /\ UNCHANGED reg_dir
    /\ UNCHANGED reg_rest

\* the loop is over: Registry::init returns
ScanEnd ==
    /\ reg_pc = "scanning"
    /\ reg_idx = Len(reg_dir)
    /\ reg_pc' = "done"
    /\ UNCHANGED <<reg_dir, reg_idx, reg_libs, reg_warns>>
    /\ UNCHANGED reg_rest

(***************************************************************************)
(* Library::get_node as a state machine: one step per path segment         *)
(***************************************************************************)
\* the most children of a node, and the most segments of a path
MaxSiblings == 2
MaxPath == 3

\* names that differ in case, and names of which one is a prefix of the other
GnNames == { <<97>>, <<98>>, <<65>>, <<97, 98>> }

\* the nodes found under the root: nodes of the same name that differ in
\* what they hold, and folders whose children repeat a name
GnNodes ==
    { LeafNode(<<97>>, 1168),
      LeafNode(<<98>>, 6700),
      LeafNode(<<97, 98>>, 1168),
      FolderNode(<<97>>, TRUE, << LeafNode(<<98>>, 1168), LeafNode(<<98>>, 6700) >>),
      FolderNode(<<65>>, TRUE, << FolderNode(<<97>>, TRUE, << LeafNode(<<65>>, 1168) >>) >>) }

GnTrees ==
    { FolderNode(<<114>>, TRUE, cs) :
        cs \in UNION { [ 1 .. n -> GnNodes ] : n \in 0 .. MaxSiblings } }

GnPaths == UNION { [ 1 .. n -> GnNames ] : n \in 0 .. MaxPath }

\* the node a chain of child indexes leads to from a node
RECURSIVE NodeAt(_, _)
NodeAt(node, idx) ==
    IF idx = <<>> THEN node ELSE NodeAt(node.children[Head(idx)], Tail(idx))

\* std::find_if over the children: the index of the first child of that
\* name, 0 for children.end()
find_if_last(children, name) ==
    IF \E k \in DOMAIN children : children[k].name = name
    THEN CHOOSE k \in DOMAIN children :
            /\ children[k].name = name
            /\ \A j \in DOMAIN children : children[j].name = name => j <= k
    ELSE 0

find_if(children, name) ==
    IF \E k \in DOMAIN children : children[k].name = name
    THEN CHOOSE k \in DOMAIN children :
            /\ children[k].name = name
            /\ \A j \in 1 .. k - 1 : children[j].name # name
    ELSE 0

GnInit ==
    /\ gn_tree \in GnTrees
    /\ gn_path \in GnPaths
    /\ gn_i = 0
    /\ gn_cur = <<>>
    /\ gn_pc = "walking"

GnIdle ==
    /\ gn_tree = FolderNode(<<>>, FALSE, <<>>)
    /\ gn_path = <<>>
    /\ gn_i = 0
    /\ gn_cur = <<>>
    /\ gn_pc = "idle"

\* the body of the loop once find_if has answered
Descend(child_it) ==
    IF child_it # 0
    THEN /\ gn_cur' = Append(gn_cur, child_it)
         /\ gn_i' = gn_i + 1
         /\ UNCHANGED gn_pc
    ELSE /\ gn_pc' = "null"
         /\ UNCHANGED <<gn_cur, gn_i>>

\* one pass of the loop over the path
GetNodeStep ==
    /\ gn_pc = "walking"
    /\ gn_i < Len(gn_path)
    /\ Descend(find_if(NodeAt(gn_tree, gn_cur).children, gn_path[gn_i + 1]))
    /\ UNCHANGED <<gn_tree, gn_path>>
    /\ UNCHANGED gn_rest

\* the loop is over: return current_node
GetNodeReturn ==
    /\ gn_pc = "walking"
    /\ gn_i = Len(gn_path)
    /\ gn_pc' = "returned"
    /\ UNCHANGED <<gn_tree, gn_path, gn_i, gn_cur>>
    /\ UNCHANGED gn_rest

(***************************************************************************)
(* utils::copy_pixels_to_area (utils.cpp)                                  *)
(***************************************************************************)
\* the largest width and height of an image, and the most channels
MaxDim == 2
MaxChannels == 2

\* sizeof(T) of the copy_pixels_to_area_impl<T> the switch on dst.format
\* picks; 0 for the default branch
SizeOfT(format) ==
    CASE format \in { "eR8G8B8Unorm", "eR8G8B8A8Unorm", "eR8G8B8Srgb", "eR8G8B8A8Srgb",
                      "eR8G8B8Uint", "eR8G8B8A8Uint" } -> 1
      [] format \in { "eR8G8B8Sint", "eR8G8B8A8Sint", "eR8G8B8Snorm", "eR8G8B8A8Snorm" } -> 1
      [] format \in { "eR16G16B16Unorm", "eR16G16B16A16Unorm", "eR16G16B16Uint", "eR16G16B16A16Uint" } -> 2
      [] format \in { "eR16G16B16Sint", "eR16G16B16A16Sint", "eR16G16B16Snorm", "eR16G16B16A16Snorm" } -> 2
      [] format \in { "eR32G32B32Uint", "eR32G32B32A32Uint" } -> 4
      [] format \in { "eR32G32B32Sint", "eR32G32B32A32Sint" } -> 4
      [] format \in { "eR16G16B16Sfloat", "eR16G16B16A16Sfloat" } -> 2
      [] format \in { "eR32G32B32Sfloat", "eR32G32B32A32Sfloat" } -> 4
      [] OTHER -> 0

\* the formats of the images given: one per channel width, and one the
\* switch does not know
PxFormats == { "eR8G8B8Unorm", "eR16G16B16Uint", "eR32G32B32Sfloat", "eUndefined" }

BytesPerChannel(format) == IF SizeOfT(format) = 0 THEN 1 ELSE SizeOfT(format)

\* an Image2D whose pixel buffer holds size() bytes; byte i is base + i
PxImage(width, height, channel_count, format, base) ==
    [ width |-> width, height |-> height, channel_count |-> channel_count,
      bytes_per_channel |-> BytesPerChannel(format), format |-> format,
      pixels |-> [ i \in 1 .. width * height * channel_count * BytesPerChannel(format) |-> base + i ] ]

\* Atlas::Rect: four ints
Rect(x, y, w, h) == [ x |-> x, y |-> y, w |-> w, h |-> h ]

PxRects ==
    { Rect(x, y, w, h) : x \in -1 .. MaxDim, y \in -1 .. MaxDim, w \in -1 .. MaxDim + 1, h \in 0 .. MaxDim }

\* the source is an image of the rectangle's size, or a wider one
PxSources(rect, channel_count) ==
    { PxImage(w, IF rect.h < 1 THEN 1 ELSE rect.h, channel_count, f, 0) :
        w \in { IF rect.w < 1 THEN 1 ELSE rect.w, MaxDim + 1 }, f \in PxFormats }

PxInit ==
    /\ px_rect \in PxRects
    /\ \E width \in 1 .. MaxDim, height \in 1 .. MaxDim, channel_count \in 1 .. MaxChannels,
          format \in PxFormats :
          /\ px_dst = PxImage(width, height, channel_count, format, 128)
          /\ px_src \in { s \in PxSources(px_rect, channel_count) :
                             s.format = format \/ s.format = "eR8G8B8Unorm" \/ format = "eR8G8B8Unorm" }
    /\ px_pc = "init"

PxIdle ==
    /\ px_src = PxImage(0, 0, 0, "eUndefined", 0)
    /\ px_dst = PxImage(0, 0, 0, "eUndefined", 0)
    /\ px_rect = Rect(0, 0, 0, 0)
    /\ px_pc = "idle"

\* the byte offsets (from 0) row y is copied to and from, and the byte count
\* memcpy is given: pointer arithmetic on T*, the count in bytes
DstOffset(dst, rect, y, size) == ((rect.y + y) * dst.width + rect.x) * dst.channel_count * size
SrcOffset(dst, rect, y, size) == (y * rect.w) * dst.channel_count * size
RowBytes(dst, rect) == rect.w * dst.channel_count

\* the rows whose memcpy writes byte b (from 0) of the destination buffer
RowsOnto(dst, rect, size, b) ==
    { y \in 0 .. rect.h - 1 :
        b >= DstOffset(dst, rect, y, size) /\ b < DstOffset(dst, rect, y, size) + RowBytes(dst, rect) }

Last(rows) == CHOOSE y \in rows : \A z \in rows : z <= y

\* some memcpy of the loop reads or writes outside the buffers, or is given
\* a negative count
OutOfBuffer(src, dst, rect, size) ==
    \E y \in 0 .. rect.h - 1 :
        \/ RowBytes(dst, rect) < 0
        \/ /\ RowBytes(dst, rect) > 0
           /\ \/ DstOffset(dst, rect, y, size) < 0
              \/ DstOffset(dst, rect, y, size) + RowBytes(dst, rect) > Len(dst.pixels)
              \/ SrcOffset(dst, rect, y, size) < 0
              \/ SrcOffset(dst, rect, y, size) + RowBytes(dst, rect) > Len(src.pixels)

\* the destination buffer after the loop of memcpy calls; a byte read from
\* outside the source buffer is whatever the memory held there
Copied(src, dst, rect, size, held) ==
    [ b \in 1 .. Len(dst.pixels) |->
        LET rows == RowsOnto(dst, rect, size, b - 1)
        IN  IF rows = {} THEN dst.pixels[b]
            ELSE At0(src.pixels,
                     SrcOffset(dst, rect, Last(rows), size) + (b - 1) - DstOffset(dst, rect, Last(rows), size),
                     held) ]

\* copy_pixels_to_area_impl<T> with sizeof(T) = size; a memcpy outside the
\* buffers is undefined: the process dies, or the bytes inside the buffers
\* are copied
copy_pixels_to_area_impl(size) ==
    IF px_rect.x + px_rect.w <= px_dst.width /\ px_rect.y + px_rect.h <= px_dst.height
    THEN \/ /\ OutOfBuffer(px_src, px_dst, px_rect, size)
            /\ px_pc' = "crashed"
            /\ UNCHANGED px_dst
         \/ /\ RowBytes(px_dst, px_rect) >= 0
            /\ \E held \in { 0, 255 } :
                  px_dst' = [ px_dst EXCEPT !.pixels = Copied(px_src, px_dst, px_rect, size, held) ]
            /\ px_pc' = "copied"
    ELSE /\ px_pc' = "thrown"
         /\ UNCHANGED px_dst

copy_pixels_to_area ==
    /\ px_pc = "init"
    /\ IF px_src.format # px_dst.format
       THEN px_pc' = "thrown" /\ UNCHANGED px_dst
       ELSE IF SizeOfT(px_dst.format) = 0
       THEN px_pc' = "warned" /\ UNCHANGED px_dst
       ELSE copy_pixels_to_area_impl(SizeOfT(px_dst.format))
    /\ UNCHANGED <<px_src, px_rect>>
    /\ UNCHANGED px_rest

(***************************************************************************)
(* Sequences behind a u16 count: the children of a Library node and the    *)
(* File lists of a Material, element by element.  An element stands for    *)
(* its bytes on the stream; element i of a sequence is the number i.       *)
(***************************************************************************)
\* the longest of the short sequences
MaxCount == 4

\* the count prefix, had it been written as a u32
U32(size) == size

\* static_cast<u16>(size)
U16(size) == size % 65536

\* the lengths: short ones, and the ones around the values a u16 wraps at
CountSizes == 0 .. MaxCount \cup { 65535, 65536, 65537, 131072 }

Elements(size) == [ i \in 1 .. size |-> i ]

\* a Library node (its asset given by the type_sign), or a vector<File>
CountedNode(size, is_folder, type_sign) ==
    [ kind |-> "node", is_folder |-> is_folder, type_sign |-> type_sign, elements |-> Elements(size) ]
CountedFiles(size) ==
    [ kind |-> "files", is_folder |-> FALSE, type_sign |-> TypeNone, elements |-> Elements(size) ]

NoCounted == CountedFiles(0)
NoWire == [ count |-> 0, is_folder |-> FALSE, elements |-> <<>>, asset |-> FALSE, type_sign |-> TypeNone ]

CntInit ==
    /\ cnt_src \in { CountedFiles(n) : n \in CountSizes }
                    \cup { CountedNode(n, f, t) : n \in CountSizes, f \in BOOLEAN, t \in { TypeNone, 1168 } }
    /\ cnt_wire = NoWire
    /\ cnt_dst = NoCounted
    /\ cnt_pc = "init"

CntIdle ==
    /\ cnt_src = NoCounted
    /\ cnt_wire = NoWire
    /\ cnt_dst = NoCounted
    /\ cnt_pc = "idle"

\* bin_stream::write(const Library::Node &): the count, then every child
\* when the count is not 0, else the asset of a node that is no folder
WriteCountedNode(node, child_count) ==
    IF child_count > 0
    THEN [ ok |-> TRUE,
           wire |-> [ count |-> child_count, is_folder |-> node.is_folder, elements |-> node.elements,
                      asset |-> FALSE, type_sign |-> TypeNone ] ]
    ELSE IF node.is_folder
    THEN [ ok |-> TRUE,
           wire |-> [ count |-> child_count, is_folder |-> TRUE, elements |-> <<>>,
                      asset |-> FALSE, type_sign |-> TypeNone ] ]
    ELSE IF node.type_sign = TypeNone THEN Raised
    ELSE [ ok |-> TRUE,
           wire |-> [ count |-> child_count, is_folder |-> FALSE, elements |-> <<>>,
                      asset |-> TRUE, type_sign |-> node.type_sign ] ]

\* bin_stream::write(const vector<File> &): the count, then every File
WriteCountedFiles(assets, size) ==
    [ ok |-> TRUE,
      wire |-> [ count |-> size, is_folder |-> FALSE, elements |-> assets.elements,
                 asset |-> FALSE, type_sign |-> TypeNone ] ]

\* bin_stream::read(Library::Node &): count children when the count is not
\* 0, else the asset of a node that is no folder
ReadCountedNode(wire) ==
    IF wire.count > 0
    THEN IF wire.count > Len(wire.elements) THEN Raised
         ELSE [ ok |-> TRUE,
                val |-> [ kind |-> "node", is_folder |-> wire.is_folder, type_sign |-> TypeNone,
                          elements |-> SubSeq(wire.elements, 1, wire.count) ] ]
    ELSE IF wire.is_folder
    THEN [ ok |-> TRUE,
           val |-> [ kind |-> "node", is_folder |-> TRUE, type_sign |-> TypeNone, elements |-> <<>> ] ]
    ELSE IF ~wire.asset \/ wire.type_sign = TypeNone THEN Raised
    ELSE [ ok |-> TRUE,
           val |-> [ kind |-> "node", is_folder |-> FALSE, type_sign |-> wire.type_sign,
                     elements |-> <<>> ] ]

\* bin_stream::read(vector<File> &): resize(size), then size Files
ReadCountedFiles(wire) ==
    IF wire.count > Len(wire.elements) THEN Raised
    ELSE [ ok |-> TRUE,
           val |-> [ kind |-> "files", is_folder |-> FALSE, type_sign |-> TypeNone,
                     elements |-> SubSeq(wire.elements, 1, wire.count) ] ]

Written(out) ==
    IF out.ok THEN cnt_wire' = out.wire /\ cnt_pc' = "written"
    ELSE cnt_pc' = "raised" /\ UNCHANGED cnt_wire

WriteCounted ==
    /\ cnt_pc = "init"
    /\ Written(IF cnt_src.kind = "node"
               THEN WriteCountedNode(cnt_src, U16(Len(cnt_src.elements)))
               ELSE WriteCountedFiles(cnt_src, U16(Len(cnt_src.elements))))
    /\ UNCHANGED <<cnt_src, cnt_dst>>
    /\ UNCHANGED cnt_rest

Reread(in) ==
    IF in.ok THEN cnt_dst' = in.val /\ cnt_pc' = "read"
    ELSE cnt_pc' = "raised" /\ UNCHANGED cnt_dst

ReadCounted ==
    /\ cnt_pc = "written"
    /\ Reread(IF cnt_src.kind = "node" THEN ReadCountedNode(cnt_wire) ELSE ReadCountedFiles(cnt_wire))
    /\ UNCHANGED <<cnt_src, cnt_wire>>
    /\ UNCHANGED cnt_rest

(***************************************************************************)
(* utils::fill_color_pixels (utils.cpp)                                    *)
(***************************************************************************)
\* the most channels of an image to fill
MaxFillChannels == 4

\* Image2D::size(): the size of the image in bytes
ImageSize(image) == image.width * image.height * image.bytes_per_channel * image.channel_count

FlImage(width, height, channel_count, format) ==
    [ width |-> width, height |-> height, channel_count |-> channel_count,
      bytes_per_channel |-> BytesPerChannel(format), format |-> format ]

\* the colours: two with four equal components, two without
FlColors == { <<0, 0, 0, 0>>, <<1, 1, 1, 1>>, <<1, 0, 0, 1>>, <<0, 1, 2, 3>> }

FlInit ==
    /\ fl_image \in { FlImage(width, height, channel_count, format) :
                        width \in 0 .. MaxDim, height \in 1 .. MaxDim,
                        channel_count \in 1 .. MaxFillChannels, format \in PxFormats }
    /\ fl_color \in FlColors
    /\ fl_buf = 0
    /\ fl_written = {}
    /\ fl_pc = "init"

FlIdle ==
    /\ fl_image = FlImage(0, 0, 0, "eUndefined")
    /\ fl_color = <<0, 0, 0, 0>>
    /\ fl_buf = 0
    /\ fl_written = {}
    /\ fl_pc = "idle"

\* the colour has four equal components
Uniform(color) == color[1] = color[2] /\ color[1] = color[3] /\ color[1] = color[4]

\* std::fill(data, data + image_info.size(), color[0]): the elements assigned
FillRange(image) == 0 .. ImageSize(image) - 1

\* the per-channel loop: i from 0 in steps of channel_count while
\* i < image_info.size(), data[i + ch] assigned for every channel ch
FillLoop(image) ==
    { i + ch : i \in { k \in 0 .. ImageSize(image) - 1 : k % image.channel_count = 0 },
               ch \in 0 .. image.channel_count - 1 }

\* fill_color_pixels_impl<T> with sizeof(T) = size.  The buffer holds
\* size() bytes, so size() / sizeof(T) elements; an assignment past it is
\* undefined: the process dies there or later, or the fill runs to its end.
\* The assert is compiled out of a release build.
fill_color_pixels_impl(size) ==
    LET targets == IF Uniform(fl_color) THEN FillRange(fl_image) ELSE FillLoop(fl_image)
        held    == ImageSize(fl_image) \div size
        past    == { i \in targets : i >= held }
    IN  /\ fl_buf' = ImageSize(fl_image)
        /\ \/ /\ ~Uniform(fl_color)
              /\ fl_image.channel_count \notin { 3, 4 }
              /\ fl_written' = {}
              /\ fl_pc' = "aborted"
           \/ /\ past = {}
              /\ fl_written' = targets
              /\ fl_pc' = "filled"
           \/ /\ past # {}
              /\ \E last \in past :
                    /\ fl_written' = { i \in targets : i <= last }
                    /\ fl_pc' \in { "filled", "crashed" }
                    /\ fl_pc' = "filled" => fl_written' = targets

fill_color_pixels ==
    /\ fl_pc = "init"
    /\ IF SizeOfT(fl_image.format) = 0
       THEN fl_pc' = "warned" /\ UNCHANGED <<fl_buf, fl_written>>
       ELSE fill_color_pixels_impl(SizeOfT(fl_image.format))
    /\ UNCHANGED <<fl_image, fl_color>>
    /\ UNCHANGED fl_rest

(***************************************************************************)
(* utils::filter_mat_assignments (utils.cpp)                               *)
(***************************************************************************)
\* the most faces of a mesh
MaxFaceCount == 3

MaterialRange(mat_id, faces) == [ mat_id |-> mat_id, faces |-> faces ]

\* the ranges: up to two faces each, a face index may be face_count or more
FmRanges ==
    { MaterialRange(mat_id, faces) :
        mat_id \in { 1, 2 },
        faces \in { <<>> } \cup { <<a>> : a \in 0 .. MaxFaceCount }
                           \cup { <<a, b>> : a \in 0 .. MaxFaceCount, b \in 0 .. MaxFaceCount } }

FmInit ==
    /\ fm_face_count \in 0 .. MaxFaceCount
    /\ fm_default_id \in { 0, 1 }
    /\ fm_assignes \in { <<>> } \cup { <<r>> : r \in FmRanges }
                                \cup { <<r, MaterialRange(2, faces)>> :
                                         r \in FmRanges, faces \in { <<>>, <<0>>, <<1, 0>>, <<MaxFaceCount>> } }
    /\ fm_dst \in { <<>>, << MaterialRange(9, <<0>>) >> }
    /\ fm_pc = "init"

FmIdle ==
    /\ fm_assignes = <<>>
    /\ fm_face_count = 0
    /\ fm_default_id = 0
    /\ fm_dst = <<>>
    /\ fm_pc = "idle"

\* std::iota over a vector of n elements, from 0
Iota(n) == [ i \in 1 .. n |-> i - 1 ]

\* faceIncluded[index] after the loop over the ranges
faceIncluded(assignes, index) ==
    \E a \in DOMAIN assignes : \E k \in DOMAIN assignes[a].faces : assignes[a].faces[k] = index

\* some faceIncluded[face] = true is outside the vector of face_count bits
FacePastEnd(assignes, face_count) ==
    \E a \in DOMAIN assignes : \E k \in DOMAIN assignes[a].faces : assignes[a].faces[k] >= face_count

\* the default range, had nothing been erased from it
ErasedNothing(faces, assignes) == faces

\* erase(remove_if(...)): the faces not included, in their order
Erased(faces, assignes) == SelectSeq(faces, LAMBDA index : ~faceIncluded(assignes, index))

\* push_back of the default range when it has faces, then of every range
Filtered(dst, defaultAssign, assignes) ==
    (IF defaultAssign.faces # <<>> THEN Append(dst, defaultAssign) ELSE dst) \o assignes

\* an assignment outside faceIncluded is undefined: the process dies, or
\* the bit is set outside the vector and the call goes on
filter_mat_assignments ==
    /\ fm_pc = "init"
    /\ LET defaultAssign == MaterialRange(fm_default_id, Iota(fm_face_count))
       IN  IF fm_assignes = <<>>
           THEN /\ fm_dst' = Append(fm_dst, defaultAssign)
                /\ fm_pc' = "done"
           ELSE \/ /\ FacePastEnd(fm_assignes, fm_face_count)
                   /\ fm_pc' = "crashed"
                   /\ UNCHANGED fm_dst
                \/ /\ fm_dst' = Filtered(fm_dst,
                                         [ defaultAssign EXCEPT !.faces = Erased(@, fm_assignes) ],
                                         fm_assignes)
                   /\ fm_pc' = "done"
    /\ UNCHANGED <<fm_assignes, fm_face_count, fm_default_id>>
    /\ UNCHANGED fm_rest

ExtIdle == NodeIdle /\ RegIdle /\ GnIdle /\ PxIdle /\ CntIdle /\ FlIdle /\ FmIdle

(***************************************************************************)
(* Specifications                                                          *)
(***************************************************************************)
InitHeader == HdrInit /\ BaryIdle /\ MeshIdle /\ FileIdle /\ ExtIdle
NextHeader == PackHeader \/ UnpackHeader
SpecHeader == InitHeader /\ [][NextHeader]_vars

InitBary == BaryInit /\ HdrIdle /\ MeshIdle /\ FileIdle /\ ExtIdle
NextBary == Pack \/ Unpack
SpecBary == InitBary /\ [][NextBary]_vars

InitMesh == MeshInit /\ HdrIdle /\ BaryIdle /\ FileIdle /\ ExtIdle
NextMesh == WriteMesh \/ ReadMesh
SpecMesh == InitMesh /\ [][NextMesh]_vars

InitFile == FileInit /\ HdrIdle /\ BaryIdle /\ MeshIdle /\ ExtIdle
SaveFile == \E compress_ok \in BOOLEAN, write_ok \in BOOLEAN : Save(compress_ok, write_ok)
UnregisterStream == \E kind \in Kinds : Unregister(kind)
NextFile == SaveFile \/ UnregisterStream \/ ReadBegin \/ ReadStep \/ ReadEnd \/ Recompress
SpecFile == InitFile /\ [][NextFile]_vars

UnregisterBefore == \E kind \in Kinds : UnregisterEarly(kind)
NextWrite == UnregisterBefore \/ SaveFile
SpecWrite == InitFile /\ [][NextWrite]_vars

InitRead == (LibInit \/ BytesInit) /\ HdrIdle /\ BaryIdle /\ MeshIdle /\ ExtIdle
SpecRead == InitRead /\ [][NextFile]_vars

InitNode == NodeInit /\ HdrIdle /\ BaryIdle /\ MeshIdle /\ FileIdle /\ RegIdle /\ GnIdle /\ PxIdle /\ CntIdle /\ FlIdle /\ FmIdle
NextNode == WriteNodeStep \/ ReadNodeStep
SpecNode == InitNode /\ [][NextNode]_vars

InitRegistry == RegInit /\ HdrIdle /\ BaryIdle /\ MeshIdle /\ FileIdle /\ NodeIdle /\ GnIdle /\ PxIdle /\ CntIdle /\ FlIdle /\ FmIdle
NextRegistry == ScanStep \/ ScanEnd
SpecRegistry == InitRegistry /\ [][NextRegistry]_vars

InitGetNode == GnInit /\ HdrIdle /\ BaryIdle /\ MeshIdle /\ FileIdle /\ NodeIdle /\ RegIdle /\ PxIdle /\ CntIdle /\ FlIdle /\ FmIdle
NextGetNode == GetNodeStep \/ GetNodeReturn
SpecGetNode == InitGetNode /\ [][NextGetNode]_vars

InitCopy == PxInit /\ HdrIdle /\ BaryIdle /\ MeshIdle /\ FileIdle /\ NodeIdle /\ RegIdle /\ GnIdle /\ CntIdle /\ FlIdle /\ FmIdle
NextCopy == copy_pixels_to_area
SpecCopy == InitCopy /\ [][NextCopy]_vars

InitCount == CntInit /\ HdrIdle /\ BaryIdle /\ MeshIdle /\ FileIdle /\ NodeIdle /\ RegIdle /\ GnIdle /\ PxIdle /\ FlIdle /\ FmIdle
NextCount == WriteCounted \/ ReadCounted
SpecCount == InitCount /\ [][NextCount]_vars

InitFill == FlInit /\ HdrIdle /\ BaryIdle /\ MeshIdle /\ FileIdle /\ NodeIdle /\ RegIdle /\ GnIdle /\ PxIdle /\ CntIdle /\ FmIdle
NextFill == fill_color_pixels
SpecFill == InitFill /\ [][NextFill]_vars

InitFilter == FmInit /\ HdrIdle /\ BaryIdle /\ MeshIdle /\ FileIdle /\ NodeIdle /\ RegIdle /\ GnIdle /\ PxIdle /\ CntIdle /\ FlIdle
NextFilter == filter_mat_assignments
SpecFilter == InitFilter /\ [][NextFilter]_vars

(***************************************************************************)
(* Claims                                                                  *)
(***************************************************************************)
Masked(h) ==
    [ h EXCEPT !.vendor_sign = @ % 16777216, !.vendor_version = @ % 16777216,
               !.spec_version = @ % 16777216 ]

\* C3: unpack_header(pack_header(h)) is h with vendor_sign, vendor_version and
\* spec_version reduced to their low 24 bits; type_sign (all 16 bits) and
\* compressed are returned unchanged.
C3_HeaderRoundTrip ==
    hdr_pc = "unpacked" =>
        /\ hdr_dst = Masked(hdr_src)
        /\ hdr_dst.type_sign = hdr_src.type_sign
        /\ hdr_dst.compressed = hdr_src.compressed

\* A header with bits above bit 23 in vendor_sign and a type_sign whose two
\* bytes differ has been packed and unpacked.
C3_Witness ==
    /\ hdr_pc = "unpacked"
    /\ hdr_src.vendor_sign = 29098877
    /\ hdr_dst.vendor_sign = 12321661
    /\ hdr_src.type_sign = 53772
    /\ hdr_src.compressed

Patterns(vs) == [ i \in 1 .. Len(vs) |-> vs[i].barycentric ]

\* C9: pack(s) has ceil(3n/64) words and unpack(pack(s), n) = s, for every
\* length n including 0, 64 and the lengths where a pattern straddles two words.
C9_BaryBijection ==
    /\ bary_pc \in {"packed", "unpacked"} =>
          /\ 64 * Len(bary_words) >= 3 * Len(bary_src)
          /\ 64 * (Len(bary_words) - 1) < 3 * Len(bary_src)
    /\ bary_pc = "unpacked" =>
          /\ bary_dst = Patterns(bary_src)
          /\ ~bary_oob

\* 64 patterns were packed into three full words and unpacked, the pattern that
\* straddles words 0 and 1 having bits on both sides of the boundary.
C9_Witness ==
    /\ bary_pc = "unpacked"
    /\ Len(bary_src) = 64
    /\ Len(bary_words) = 3
    /\ bary_src[22].barycentric = <<F1, 0, F1>>
    /\ 0 \in bary_words[1]
    /\ 62 \in bary_words[2]

\* The faces of m occupy consecutive, gap-free slices of m.model.indices in
\* face order.
GapFree(m) ==
    \A f \in 1 .. Len(m.model.faces) :
        m.model.faces[f].startID = SumTo([ g \in 1 .. Len(m.model.faces) |-> m.model.faces[g].indexCount ], f - 1)

Slice(xs, start, count) == [ k \in 1 .. count |-> xs[start + k] ]

\* C10: after encode and decode of a mesh whose faces occupy consecutive,
\* gap-free slices of the index array, each face's start index is the sum of
\* the index counts of the earlier faces, and its slice of the decoded index
\* array holds exactly the indices serialized for it.
C10_FaceIndices ==
    (mesh_pc = "read" /\ GapFree(mesh_src)) =>
        /\ ~mesh_ub
        /\ Len(mesh_dst.model.faces) = Len(mesh_src.model.faces)
        /\ \A f \in 1 .. Len(mesh_src.model.faces) :
              LET sf == mesh_src.model.faces[f]
                  df == mesh_dst.model.faces[f]
              IN  /\ df.indexCount = sf.indexCount
                  /\ df.startID = SumTo([ g \in 1 .. Len(mesh_dst.model.faces) |->
                                            mesh_dst.model.faces[g].indexCount ], f - 1)
                  /\ df.startID + df.indexCount <= Len(mesh_dst.model.indices)
                  /\ Slice(mesh_dst.model.indices, df.startID, df.indexCount)
                        = Slice(mesh_src.model.indices, sf.startID, sf.indexCount)

\* A mesh of three faces with 2, 0 and 2 indices, a vertex group and an index
\* after the last face was written and read back.
C10_Witness ==
    /\ mesh_pc = "read"
    /\ GapFree(mesh_src)
    /\ Len(mesh_src.model.faces) = 3
    /\ mesh_src.model.faces[1].indexCount = 2
    /\ mesh_src.model.faces[2].indexCount = 0
    /\ mesh_src.model.faces[3].indexCount = 2
    /\ mesh_dst.model.faces[3].startID = 2
    /\ Len(mesh_src.model.groups) = 1
    /\ Len(mesh_src.model.indices) = 5

KindsOf(blocks) == [ i \in 1 .. Len(blocks) |-> blocks[i].kind ]

\* the blocks of a list whose kind is in the registry / is not the given kind
Registered(blocks, registry) ==
    LET Known(b) == b.kind \in registry IN SelectSeq(blocks, Known)
Without(blocks, kind) ==
    LET Other(b) == b.kind # kind IN SelectSeq(blocks, Other)

\* the read of the file that File::save just wrote has returned
ReadBack == file_pc = "done" /\ save_ret

\* C1: reading back a saved File whose blocks all have a registered stream
\* gives a File with the same header and the same blocks in the same order.
C1_RoundTrip ==
    (ReadBack /\ resolver = Kinds /\ custom_read = "block") =>
        /\ read_ret = "file"
        /\ rd_asset.header = src_file.header
        /\ rd_asset.blocks = src_file.blocks

\* C2: the checksum save_file stores in the saved File and the checksum of the
\* File read back are equal, and both are the CRC-32 of the block stream
\* File::save built, whether the file is compressed or not.
C2_Checksum ==
    (ReadBack /\ read_ret = "file") =>
        /\ rd_asset.checksum = src_file.checksum
        /\ src_file.checksum = crc32(enc)

\* A File of two blocks or more has been saved and read back uncompressed,
\* then compressed.
C2_Witness ==
    /\ ReadBack /\ read_ret = "file" /\ round = 2
    /\ src_file.header.compressed /\ ~round1.file.header.compressed
    /\ round1.read_ret = "file"
    /\ Len(src_file.blocks) >= 2
    /\ rd_asset.checksum # NoChecksum

\* C4: the same File saved uncompressed and compressed reads back to the same
\* result: the same blocks, the same checksum, and the same header but for
\* its compressed flag.
C4_CompressionTransparent ==
    (ReadBack /\ round = 2) =>
        /\ read_ret = round1.read_ret
        /\ read_ret = "file" =>
            /\ rd_asset.blocks = round1.asset.blocks
            /\ rd_asset.checksum = round1.asset.checksum
            /\ rd_asset.header = [ round1.asset.header EXCEPT !.compressed = ~@ ]

\* Both files of a File with blocks were read; the bytes on disk differ.
C4_Witness ==
    /\ ReadBack /\ round = 2 /\ read_ret = "file"
    /\ rd_asset.header.compressed /\ ~round1.asset.header.compressed
    /\ Len(rd_asset.blocks) >= 2
    /\ disk.data # round1.disk.data
    /\ Len(disk.data) = Len(round1.disk.data) + 1

\* C5: a frame whose signature has no registered stream is skipped by exactly
\* block_size bytes; the read raises nothing and returns a File holding
\* exactly the blocks of the registered frames, in their order.
C5_UnknownSkipped ==
    /\ rd.frame.st = "skipped" => rd.frame.pos = rd.frame.start + 12 + rd.frame.block_size
    /\ (ReadBack /\ resolver # Kinds /\ custom_read = "block") =>
        /\ read_ret = "file"
        /\ KindsOf(rd_asset.blocks) = KindsOf(Registered(src_file.blocks, resolver))

\* C6: when a registered reader has returned, the cursor is exactly
\* block_size bytes past the frame's signature.
C6_CursorAfterDecode ==
    rd.frame.st \in {"block", "null"} =>
        rd.frame.pos = rd.frame.start + 12 + rd.frame.block_size

C8_SaveFailure ==
    (file_pc \in {"saved", "reading", "done"}
        /\ (~WriteBlocks(src_file.blocks, Kinds).ok \/ save_io.compress_failed)) =>
        /\ ~save_ret
        /\ wb_calls = round - 1
        /\ disk = round1.disk

\* The second block's writer raised (an Image2D without pixels).
C8_Witness ==
    /\ file_pc = "saved" /\ ~save_ret
    /\ Len(src_file.blocks) >= 2
    /\ src_file.blocks[1].kind = "material_info"
    /\ src_file.blocks[2] = ImageBlock(NullPixels)
    /\ wb_calls = 0 /\ disk = NoDisk

\* C11: the mesh readMesh builds from what writeMesh wrote has the same
\* vertices (pos, uv, normal), the same AABB and the same transform.
C11_MeshSymmetric ==
    mesh_pc = "read" =>
        /\ mesh_dst.model.vertices = mesh_src.model.vertices
        /\ mesh_dst.model.aabb = mesh_src.model.aabb
        /\ mesh_dst.transform = mesh_src.transform

\* the u16 that follows rgb in the stream of a MaterialNode
NodeWire == RdInt(node_bytes, 12, 2)

\* C12: a MaterialNode that is not textured is written with a u16 of 0 and
\* read back not textured with texture_id 0, whatever its texture_id was.
C12_UntexturedNode ==
    /\ (node_pc \in {"written", "read"} /\ ~node_src.textured) => NodeWire = 0
    /\ (node_pc = "read" /\ ~node_src.textured) =>
        /\ node_dst.textured = FALSE
        /\ node_dst.texture_id = 0

\* An untextured node whose texture_id was 0x1234 has been read back.
C12_Witness ==
    /\ node_pc = "read" /\ ~node_src.textured
    /\ node_src.texture_id = 4660
    /\ node_dst.texture_id = 0 /\ ~node_dst.textured

\* C13: a textured MaterialNode with texture_id in 0 .. 32767 is read back
\* equal to what was written; its u16 has bit 15 set and texture_id below.
C13_TexturedNode ==
    (node_pc \in {"written", "read"} /\ node_src.textured /\ node_src.texture_id \in 0 .. 32767) =>
        /\ NodeWire = 32768 + node_src.texture_id
        /\ node_pc = "read" => node_dst = node_src

\* The node of the scenario: rgb (0.1, 0.2, 0.3), textured, texture_id 0x1234.
C13_Witness ==
    /\ node_pc = "read" /\ node_src.textured
    /\ node_src.texture_id = 4660
    /\ node_src.rgb = <<1036831949, 1045220557, 1050253722>>
    /\ node_dst = node_src

\* the tree of the Library file given to File::save
SavedTree == src_file.blocks[1].fileTree

\* the files on disk whose Library tree has a leaf of type_sign none
CorruptBuffers == { Envelope(h, s) : h \in EnvHeaders, s \in CorruptStreams }

\* C14: a Library tree with a childless non-folder node whose asset has
\* type_sign none is refused both ways: File::save returns false and writes
\* nothing, and reading a file that holds such a tree returns no File.
C14_CorruptLibrary ==
    /\ (file_pc \in {"saved", "reading", "done"} /\ src_file.blocks # <<>> /\ HasBadLeaf(SavedTree)) =>
        /\ ~save_ret
        /\ wb_calls = 0
        /\ disk = NoDisk
    /\ (file_pc = "done" /\ disk.data \in CorruptBuffers) =>
        /\ read_ret = "nullptr"
        /\ rd_asset = NoFile

\* The reader of a compressed file raised inside the Library frame, after a
\* material_info block had been read.
C14_Witness ==
    /\ file_pc = "done" /\ disk.data \in CorruptBuffers
    /\ read_ret = "nullptr"
    /\ rd.frame.stream = "library" /\ rd.frame.st = "raised"
    /\ rd.frame.start > rd.offset
    /\ unpack_header(ReadPack(disk.data, 4)).compressed

RECURSIVE Shape(_)
\* the names, is_folder flags and child order of a tree
Shape(node) ==
    [ name |-> node.name, is_folder |-> node.is_folder,
      children |-> [ i \in 1 .. Len(node.children) |-> Shape(node.children[i]) ] ]

RECURSIVE FoldersBare(_)
\* every childless folder of the tree holds the default asset
FoldersBare(node) ==
    IF node.children = <<>> THEN node.is_folder => node.asset = NoFile
    ELSE \A i \in 1 .. Len(node.children) : FoldersBare(node.children[i])

\* C15: a Library tree File::save accepted is read back with every node's
\* name, is_folder and child order; no asset is read for a childless folder.
C15_LibraryRoundTrip ==
    (ReadBack /\ resolver = Kinds /\ src_file.blocks # <<>>) =>
        /\ read_ret = "file"
        /\ Len(rd_asset.blocks) = 1
        /\ Shape(rd_asset.blocks[1].fileTree) = Shape(SavedTree)
        /\ FoldersBare(rd_asset.blocks[1].fileTree)
        /\ rd.pos = Len(rd.data)

\* A tree whose root holds a node with a child and is_folder = false, then
\* an empty folder, was saved compressed and read back.
C15_Witness ==
    /\ ReadBack /\ resolver = Kinds /\ read_ret = "file" /\ round = 2
    /\ src_file.header.compressed
    /\ src_file.blocks # <<>>
    /\ Len(SavedTree.children) = 2
    /\ SavedTree.children[1] = FolderNode(<<102>>, FALSE, << LeafNode(<<97>>, 1168) >>)
    /\ SavedTree.children[2] = FolderNode(<<100>>, TRUE, <<>>)
    /\ rd_asset.blocks[1].fileTree.children[1].is_folder = FALSE

\* the file on disk has four bytes or more and they are not the magic
BadMagic == disk.exists /\ Len(disk.data) >= 4 /\ SubSeq(disk.data, 1, 4) # MagicBytes

\* C16: reading a file whose first four bytes are not the magic returns no
\* File; neither the header nor a block is decoded.
C16_BadMagic ==
    BadMagic =>
        /\ file_pc # "reading"
        /\ file_pc = "done" => (read_ret = "nullptr" /\ rd_asset = NoFile /\ rd = NoRd)

\* The file differs from a well-formed one in the last byte of the magic.
C16_Witness ==
    /\ BadMagic /\ file_pc = "done" /\ read_ret = "nullptr"
    /\ SubSeq(disk.data, 1, 4) = <<147, 179, 159, 203>>
    /\ Len(disk.data) > 24

\* C17: reading a well-formed file whose block stream holds no block of a
\* registered kind returns a File with no blocks, the header of the file and
\* the CRC-32 of the block stream.
C17_NoBlocks ==
    /\ \A h \in EnvHeaders, s \in EmptyStreams :
        (file_pc = "done" /\ src_file = NoFile /\ disk.exists /\ disk.data = Envelope(h, s)) =>
            /\ read_ret = "file"
            /\ rd_asset = [ header |-> h, blocks |-> <<>>, checksum |-> crc32(s) ]
    /\ (ReadBack /\ resolver # Kinds) =>
        /\ read_ret = "file"
        /\ rd_asset = [ header |-> src_file.header, blocks |-> <<>>, checksum |-> crc32(enc) ]

\* The block stream was two unknown frames and the terminator.
C17_Witness ==
    /\ file_pc = "done" /\ read_ret = "file" /\ src_file = NoFile
    /\ disk.data = Envelope(FileHeader(6700, TRUE), UnknownFrame \o UnknownFrame \o Terminator)
    /\ rd_asset.blocks = <<>>
    /\ rd.frame.st = "break"

(***************************************************************************)
(* C18 -- Registry::init handles every listed .umlib file independently of *)
(* the others: the scan is never aborted; when it is over, a warning has   *)
(* been logged for each file that failed to read, had a type_sign other    *)
(* than library or raised, and every file that loaded as a library is in   *)
(* the registry under its root node's name.                                *)
(***************************************************************************)
IsUmlib(entry) == entry.ext = ".umlib"

LoadsAsLibrary(entry) ==
    /\ IsUmlib(entry)
    /\ ~entry.throws
    /\ read_from_disk(entry).ok
    /\ read_from_disk(entry).val.header.type_sign = 6700

IsSkipped(entry) == IsUmlib(entry) /\ ~LoadsAsLibrary(entry)

InRegistry(asset) ==
    /\ asset.blocks # <<>>
    /\ asset.blocks[1].kind = "library"
    /\ [ name |-> asset.blocks[1].fileTree.name, library |-> asset.blocks[1] ] \in reg_libs

C18_ScanIndependent ==
    /\ reg_pc # "crashed"
    /\ reg_pc = "done" =>
          /\ reg_warns = Cardinality({ i \in DOMAIN reg_dir : IsSkipped(reg_dir[i]) })
          /\ \A i \in DOMAIN reg_dir :
                LoadsAsLibrary(reg_dir[i]) => InRegistry(read_from_disk(reg_dir[i]).val)

(***************************************************************************)
(* C19 -- Library::get_node(path) returns the node at the end of the chain *)
(* root = n0, n1, ..., nk in which each n(i+1) is the first child of n(i)  *)
(* whose name is exactly the i-th segment; it returns none as soon as a    *)
(* segment has no child of that name, the root for an empty path, and      *)
(* never modifies the tree.                                                *)
(***************************************************************************)
\* idx is a chain for the first Len(idx) segments of the path
IsChain(idx) ==
    /\ Len(idx) <= Len(gn_path)
    /\ \A j \in DOMAIN idx :
          LET parent == NodeAt(gn_tree, SubSeq(idx, 1, j - 1))
          IN  /\ idx[j] \in DOMAIN parent.children
              /\ parent.children[idx[j]].name = gn_path[j]
              /\ \A k \in 1 .. idx[j] - 1 : parent.children[k].name # gn_path[j]

\* the most children any node of the tree has
RECURSIVE Width(_)
Width(node) ==
    LET below == { Width(node.children[k]) : k \in DOMAIN node.children } \cup { Len(node.children) }
    IN  CHOOSE w \in below : \A v \in below : v <= w

ChainsOf(n) == { idx \in [ 1 .. n -> 1 .. Width(gn_tree) ] : IsChain(idx) }

GetNodeResult ==
    /\ gn_pc = "returned" =>
          /\ Len(gn_cur) = Len(gn_path)
          /\ IsChain(gn_cur)
          /\ gn_path = <<>> => NodeAt(gn_tree, gn_cur) = gn_tree
    /\ gn_pc = "null" =>
          /\ IsChain(gn_cur)
          /\ Len(gn_cur) = gn_i
          /\ gn_i < Len(gn_path)
          /\ ChainsOf(gn_i + 1) = {}
          /\ ChainsOf(Len(gn_path)) = {}
          /\ \A k \in DOMAIN NodeAt(gn_tree, gn_cur).children :
                NodeAt(gn_tree, gn_cur).children[k].name # gn_path[gn_i + 1]
    /\ gn_pc = "walking" => IsChain(gn_cur) /\ Len(gn_cur) = gn_i

C19_GetNode == [] GetNodeResult /\ [][gn_tree' = gn_tree]_vars

C19_Witness ==
    /\ gn_pc = "returned"
    /\ Len(gn_path) = 2
    /\ Len(gn_tree.children) = 2
    /\ gn_tree.children[1].name = gn_tree.children[2].name
    /\ gn_tree.children[1] # gn_tree.children[2]
    /\ gn_cur[1] = 1
    /\ Len(NodeAt(gn_tree, <<1>>).children) = 2

(***************************************************************************)
(* C20 -- copy_pixels_to_area raises an error whenever the formats of the  *)
(* two images differ or the rectangle is not entirely inside the           *)
(* destination image (negative x or y included), and then leaves the       *)
(* destination pixels unchanged; it copies only when the formats match and *)
(* the rectangle is in bounds.                                             *)
(***************************************************************************)
RectInside(rect, image) ==
    /\ rect.x >= 0
    /\ rect.y >= 0
    /\ rect.w >= 0
    /\ rect.h >= 0
    /\ rect.x + rect.w <= image.width
    /\ rect.y + rect.h <= image.height

DstUntouched ==
    px_dst = PxImage(px_dst.width, px_dst.height, px_dst.channel_count, px_dst.format, 128)

C20_CopyGuarded ==
    px_pc \in { "copied", "warned", "thrown", "crashed" } =>
        /\ (px_src.format # px_dst.format \/ ~RectInside(px_rect, px_dst)) =>
              px_pc = "thrown" /\ DstUntouched
        /\ px_pc = "copied" => px_src.format = px_dst.format /\ RectInside(px_rect, px_dst)

(***************************************************************************)
(* C21 -- pack places the 3-bit pattern of vertex i (bit 2 = x nonzero,    *)
(* bit 1 = y nonzero, bit 0 = z nonzero) at positions 3i, 3i+1, 3i+2 of    *)
(* the MSB-first concatenation of the output words; a pattern that         *)
(* straddles two words has its high bits at the low end of the first and   *)
(* its low bits at the top of the second; every bit past 3n is zero.       *)
(***************************************************************************)
\* bit p (from 0) of the MSB-first concatenation of the words
StreamBit(words, p) == (63 - (p % 64)) \in words[(p \div 64) + 1]

\* bit k (2 = x, 1 = y, 0 = z) of the pattern of a barycentric vertex
PatternBit(vertex, k) == vertex.barycentric[3 - k] # 0

C21_PackLayout ==
    bary_pc \in {"packed", "unpacked"} =>
        /\ \A w \in DOMAIN bary_words : bary_words[w] \subseteq 0 .. 63
        /\ \A p \in 0 .. 64 * Len(bary_words) - 1 :
              StreamBit(bary_words, p) <=>
                  (p < 3 * Len(bary_src) /\ PatternBit(bary_src[(p \div 3) + 1], 2 - (p % 3)))

\* 66 patterns were packed into four words; pattern 21 straddles words 0 and
\* 1 with a bit on each side, pattern 42 straddles words 1 and 2, pattern 63
\* ends word 2 exactly, and the last word has bits among its top six only.
C21_Witness ==
    /\ bary_pc = "packed"
    /\ Len(bary_src) = 66
    /\ Len(bary_words) = 4
    /\ 0 \in bary_words[1] /\ 63 \in bary_words[2]
    /\ {0, 1} \subseteq bary_words[2] /\ 63 \in bary_words[3]
    /\ {0, 2} \subseteq bary_words[3]
    /\ bary_words[4] # {}

(***************************************************************************)
(* C22 -- the checksum read_from_bytes stores is the CRC-32 of the bytes   *)
(* of the block stream that decoding consumed, from the start of the block *)
(* stream up to and including the terminator: bytes behind the terminator  *)
(* do not change it.                                                       *)
(***************************************************************************)
\* the bytes between the start of the block stream and the cursor
Consumed == SubSeq(rd.data, rd.offset + 1, rd.pos)

C22_ChecksumConsumed ==
    (file_pc = "done" /\ read_ret = "file" /\ rd.broke) =>
        rd_asset.checksum = crc32(Consumed)

(***************************************************************************)
(* C23 -- every frame the writer emits has block_size > 0, so the only u64 *)
(* zero at a frame boundary of a written stream is the terminator, and no  *)
(* written block or successor of it is lost to a premature end of parsing. *)
(***************************************************************************)
\* the frame boundaries of a written stream, walked by block_size from pos:
\* where the first u64 zero stands (-1: none), and how many frames precede it
RECURSIVE ZeroAt(_, _)
ZeroAt(d, pos) ==
    IF ~Has(d, pos, 8) THEN -1
    ELSE IF RdInt(d, pos, 8) = 0 THEN pos
    ELSE ZeroAt(d, pos + 12 + RdInt(d, pos, 8))

RECURSIVE FramesBefore(_, _)
FramesBefore(d, pos) ==
    IF ~Has(d, pos, 8) THEN 0
    ELSE IF RdInt(d, pos, 8) = 0 THEN 0
    ELSE 1 + FramesBefore(d, pos + 12 + RdInt(d, pos, 8))

\* the writer's part: the first zero at a frame boundary is the terminator
\* that ends the stream, behind one frame per block
FramesWritten ==
    (file_pc \in {"saved", "reading", "done"} /\ save_ret) =>
        /\ ZeroAt(enc, 0) = Len(enc) - 8
        /\ FramesBefore(enc, 0) = Len(src_file.blocks)

C23_FramesNonEmpty ==
    /\ FramesWritten
    /\ (ReadBack /\ resolver = Kinds /\ custom_read = "block") =>
          /\ read_ret = "file"
          /\ rd.broke
          /\ rd.pos = Len(rd.data)
          /\ Len(rd_asset.blocks) = Len(src_file.blocks)

(***************************************************************************)
(* C24 -- writing a block list that holds blocks whose signature has no    *)
(* registered stream emits no frame for them and raises no error: the      *)
(* stream is the frames of the registered blocks in their order, then one  *)
(* u64 zero; save returns success; the block list in memory is unchanged.  *)
(***************************************************************************)
\* the frames of the blocks of a list, one after the other
RECURSIVE FramesOf(_, _)
FramesOf(blocks, registry) ==
    IF blocks = <<>> THEN <<>>
    ELSE Framed(Signature(Head(blocks).kind), WriteBlock(Head(blocks), registry)).bytes
            \o FramesOf(Tail(blocks), registry)

\* a registered writer raises for the block: an image without pixels, a
\* library with a leaf of type_sign none
WriterRaises(block) ==
    \/ block.kind = "image2D" /\ block.pixels.null
    \/ block.kind = "library" /\ HasBadLeaf(block.fileTree)

SaveFailed ==
    \/ save_io.compress_failed
    \/ save_io.write_failed
    \/ \E i \in DOMAIN src_file.blocks :
          src_file.blocks[i].kind \in resolver /\ WriterRaises(src_file.blocks[i])

C24_UnregisteredWrite ==
    file_pc = "saved" =>
        /\ save_ret = ~SaveFailed
        /\ save_ret =>
              /\ enc = FramesOf(Registered(src_file.blocks, resolver), resolver) \o LE(0, 8)
              /\ disk.exists
              /\ disk.data = Envelope(src_file.header, enc)
        /\ [ src_file EXCEPT !.checksum = NoChecksum ] \in Files

\* a list of three blocks was saved by a build without the stream of the
\* second one
C24_Witness ==
    /\ file_pc = "saved"
    /\ save_ret
    /\ Len(src_file.blocks) = 3
    /\ src_file.blocks[2].kind \notin resolver
    /\ src_file.blocks[1].kind \in resolver
    /\ src_file.blocks[3].kind \in resolver
    /\ src_file.blocks[1].kind # src_file.blocks[3].kind
    /\ Len(enc) > 8

(***************************************************************************)
(* C25 -- for a sequence written behind a u16 count (the children of a     *)
(* Library node, the File list of a Material) the count written is the     *)
(* size mod 2^16 while all elements are written; count and number of       *)
(* elements agree, and the sequence is read back, only for sizes below     *)
(* 65536; a node with exactly 65536 children is written with count 0 and   *)
(* takes the branch of a node without children.                            *)
(***************************************************************************)
SizeOf(counted) == Len(counted.elements)

\* the writer took the branch of a node without children: no child is on
\* the stream, and the asset is there exactly when the node is no folder
LeafBranch == cnt_wire.elements = <<>> /\ cnt_wire.asset = ~cnt_src.is_folder

C25_CountPrefix ==
    /\ cnt_pc = "raised" =>
          /\ cnt_src.kind = "node" /\ ~cnt_src.is_folder /\ cnt_src.type_sign = TypeNone
          /\ \E k \in 0 .. 2 : SizeOf(cnt_src) = 65536 * k
    /\ cnt_pc \in {"written", "read"} =>
          /\ cnt_wire.count \in 0 .. 65535
          /\ \E k \in 0 .. 2 : SizeOf(cnt_src) = cnt_wire.count + 65536 * k
          /\ (cnt_src.kind = "files" \/ cnt_wire.count > 0) =>
                /\ cnt_wire.elements = cnt_src.elements
                /\ cnt_wire.count = Len(cnt_wire.elements) <=> SizeOf(cnt_src) < 65536
          /\ (cnt_src.kind = "node" /\ cnt_wire.count = 0) => LeafBranch
          /\ (cnt_src.kind = "node" /\ SizeOf(cnt_src) = 65536) => cnt_wire.count = 0 /\ LeafBranch
    /\ cnt_pc = "read" =>
          /\ cnt_dst.elements = SubSeq(cnt_src.elements, 1, cnt_wire.count)
          /\ cnt_dst.elements = cnt_src.elements <=> SizeOf(cnt_src) < 65536

\* a folder with exactly 65536 children was written and read back as a
\* folder without children
C25_Witness ==
    /\ cnt_pc = "read"
    /\ cnt_src.kind = "node"
    /\ cnt_src.is_folder
    /\ SizeOf(cnt_src) = 65536
    /\ cnt_wire.count = 0
    /\ cnt_dst.elements = <<>>

(***************************************************************************)
(* C26 -- Registry::init takes the first block of a loaded file only when  *)
(* that is safe: blocks.front() only of a block list that is not empty,    *)
(* and every block in the registry is a Library block; a file of type      *)
(* library without blocks, or whose first block is no Library, never       *)
(* results in a registry entry.                                            *)
(***************************************************************************)
\* the entry comes from a listed file, already handled, whose first block
\* is the Library it holds
FromLibraryFile(e) ==
    \E i \in 1 .. reg_idx :
        /\ LoadsAsLibrary(reg_dir[i])
        /\ read_from_disk(reg_dir[i]).val.blocks # <<>>
        /\ read_from_disk(reg_dir[i]).val.blocks[1] = e.library
        /\ e.library.kind = "library"
        /\ e.name = e.library.fileTree.name

C26_FirstBlockSafe ==
    /\ reg_pc # "crashed"
    /\ \A e \in reg_libs : FromLibraryFile(e)

(***************************************************************************)
(* C27 -- for matching formats and a rectangle inside the destination,     *)
(* copy_pixels_to_area makes every destination pixel (rect.x + i,          *)
(* rect.y + j), 0 <= i < rect.w, 0 <= j < rect.h, equal in all channels    *)
(* to source pixel (i, j), for the 1-, 2- and 4-byte channel types, and    *)
(* leaves every destination pixel outside the rectangle unchanged.         *)
(***************************************************************************)
\* byte k of channel c of pixel (x, y) of an image, from 1
PixelByte(image, x, y, c, k) ==
    image.pixels[((y * image.width + x) * image.channel_count + c) * image.bytes_per_channel + k + 1]

InRect(rect, x, y) ==
    /\ x >= rect.x
    /\ x < rect.x + rect.w
    /\ y >= rect.y
    /\ y < rect.y + rect.h

\* the call the claim is about: a known format on both sides, the rectangle
\* inside the destination
CopyCase ==
    /\ px_pc \in { "copied", "thrown", "crashed" }
    /\ px_src.format = px_dst.format
    /\ SizeOfT(px_dst.format) # 0
    /\ RectInside(px_rect, px_dst)

PixelsCopied ==
    \A x \in 0 .. px_dst.width - 1, y \in 0 .. px_dst.height - 1,
       c \in 0 .. px_dst.channel_count - 1, k \in 0 .. px_dst.bytes_per_channel - 1 :
        PixelByte(px_dst, x, y, c, k) =
            IF InRect(px_rect, x, y)
            THEN PixelByte(px_src, x - px_rect.x, y - px_rect.y, c, k)
            ELSE PixelByte(PxImage(px_dst.width, px_dst.height, px_dst.channel_count, px_dst.format, 128),
                           x, y, c, k)

C27_CopyExact ==
    CopyCase => px_pc = "copied" /\ PixelsCopied

(***************************************************************************)
(* C28 -- fill_color_pixels never writes outside the pixel buffer it       *)
(* allocates: the buffer holds image.size() bytes, and for every channel   *)
(* type T of 1, 2 or 4 bytes and both fill paths (uniform colour and       *)
(* per-channel colour) every element index written is below                *)
(* size() / sizeof(T).                                                     *)
(***************************************************************************)
\* the call ran fill_color_pixels_impl<T>
FillCase == fl_pc \in { "filled", "crashed", "aborted" }

C28_FillInBuffer ==
    FillCase =>
        /\ fl_buf = ImageSize(fl_image)
        /\ \A i \in fl_written : i < fl_buf \div SizeOfT(fl_image.format)

(***************************************************************************)
(* C29 -- filter_mat_assignments with face_count F and ranges whose face   *)
(* indices are all below F appends to dst a list in which every face in    *)
(* [0, F) occurs in at least one range: a default range with mat_id =      *)
(* default_id holding exactly the faces named by no input range, in        *)
(* ascending order, placed first and omitted when it would be empty, then  *)
(* all input ranges unchanged and in their order; with no input ranges     *)
(* dst receives only the default range with all F faces.                   *)
(***************************************************************************)
\* the faces of [0, F) no range names
Unnamed(assignes, F) ==
    { f \in 0 .. F - 1 : \A a \in DOMAIN assignes : \A k \in DOMAIN assignes[a].faces : assignes[a].faces[k] # f }

RECURSIVE Ascending(_)
Ascending(faces) ==
    IF faces = {} THEN <<>>
    ELSE LET least == CHOOSE f \in faces : \A g \in faces : f <= g
         IN  <<least>> \o Ascending(faces \ { least })

\* the list the call is to append
Appended(assignes, F, default_id) ==
    IF assignes = <<>> THEN << MaterialRange(default_id, Ascending(0 .. F - 1)) >>
    ELSE (IF Unnamed(assignes, F) = {} THEN <<>>
          ELSE << MaterialRange(default_id, Ascending(Unnamed(assignes, F))) >>) \o assignes

Covers(ranges, F) ==
    \A f \in 0 .. F - 1 : \E a \in DOMAIN ranges : \E k \in DOMAIN ranges[a].faces : ranges[a].faces[k] = f

FacesBelow(assignes, F) ==
    \A a \in DOMAIN assignes : \A k \in DOMAIN assignes[a].faces : assignes[a].faces[k] < F

C29_FilterAppends ==
    [][ (fm_pc = "init" /\ FacesBelow(fm_assignes, fm_face_count)) =>
            /\ fm_pc' = "done"
            /\ fm_dst' = fm_dst \o Appended(fm_assignes, fm_face_count, fm_default_id)
            /\ Covers(Appended(fm_assignes, fm_face_count, fm_default_id), fm_face_count) ]_vars

\* a call with two ranges that leave faces 0 and 2 of three to the default
\* range, appended behind what dst held
C29_Witness ==
    /\ fm_pc = "done"
    /\ fm_face_count = 3
    /\ Len(fm_assignes) = 2
    /\ FacesBelow(fm_assignes, fm_face_count)
    /\ Len(fm_dst) = 4
    /\ fm_dst[2] = MaterialRange(fm_default_id, <<0, 2>>)
    /\ SubSeq(fm_dst, 3, 4) = fm_assignes

(***************************************************************************)
(* C30 -- for every mesh block the writer accepts, the number of packed    *)
(* barycentric words written, ceil(3 * |baryVertices| / 64), equals the    *)
(* number the reader consumes, ceil(3 * index_count / 64), so the AABB is  *)
(* decoded from the bytes the writer produced for it; and every decoded    *)
(* barycentric vertex i takes its position from vertices[indices[i]] with  *)
(* indices[i] < vertex_count.                                              *)
(***************************************************************************)
\* the words writeMesh put on the stream, and the words readMesh takes off
\* it for the index count it read
WordsWritten == Len(pack(mesh_src.baryVertices).pack64)
WordsConsumed == PackSize(RdInt(mesh_bytes, 12, 4))

\* writeMesh ran without reading outside a vector, and readMesh was run
MeshAccepted ==
    /\ mesh_pc \in { "read", "raised" }
    /\ ~WriteMeshUB(mesh_src)

C30_BaryWords ==
    MeshAccepted =>
        /\ WordsWritten = PackSize(Len(mesh_src.baryVertices))
        /\ WordsWritten = WordsConsumed
        /\ mesh_pc = "read"
        /\ mesh_dst.model.aabb = mesh_src.model.aabb
        /\ \A i \in 1 .. Len(mesh_dst.baryVertices) :
              /\ mesh_dst.model.indices[i] < Len(mesh_dst.model.vertices)
              /\ mesh_dst.baryVertices[i].pos = mesh_dst.model.vertices[mesh_dst.model.indices[i] + 1].pos

=============================================================================
